---- MODULE Spec2Model ----
(***************************************************************************)
(* Connection-management core of mtp2-common-lib: the TCP client          *)
(* (socket/client.go) and the TCP server (socket/server.go), modelled at   *)
(* the granularity of their goroutines and critical sections.              *)
(*                                                                         *)
(* Every section of code that runs under c.mutex / s.clientsMutex is one   *)
(* atomic action.  A `go f()` statement that directly follows a critical   *)
(* section is folded into the action of that section: a goroutine that was *)
(* spawned may be scheduled arbitrarily late, so nothing is lost.  In the  *)
(* same way a blocking call whose failure is permanent (a read or write on *)
(* a closed or broken connection, a select on a cancelled context) is      *)
(* folded into the critical section that follows it.                       *)
(* A user callback started with `go` is a goroutine of its own: it is      *)
(* "pending" from the go statement until the scheduler runs it.  on-error  *)
(* is recorded when it is dispatched (the go statement).                   *)
(***************************************************************************)
EXTENDS Naturals, Integers, Sequences, FiniteSets, TLC

\* ------------------------------------------------------------------ bounds
MaxConns == 2   \* connections the client establishes in one run
MaxDials == 3   \* the same, in the runs that follow one client through a
                \* drop, a Connect of the user and a reconnection
MaxMsgs  == 2   \* messages the peer sends to the client in one run
MaxRec   == 2   \* the non-zero value of MaxReconnects that is explored

\* cap on the reconnect counter, which is unbounded when MaxReconnects = 0
MaxAttempts == MaxRec

ConnIds == 1..MaxDials
MsgIds  == 1..MaxMsgs

VARIABLES
  \* ---- TCPClient fields
  autoReconnect,   \* c.autoReconnect
  maxReconnects,   \* c.maxReconnects
  conn,            \* c.conn: 0 is nil, k > 0 the k-th connection dialed
  connected,       \* c.connected
  reconnectCount,  \* c.reconnectCount
  ctxDone,         \* c.ctx is cancelled
  \* ---- transports and environment
  nDialed,         \* connections dialed so far
  dialCap,         \* connections that can be dialed in this run
  link,            \* link[k]: "none" | "open" | "broken" (peer or network
                   \*          gone) | "closed" (the client closed it)
  serverUp,        \* a dial would succeed
  msg,             \* msg[m]: [conn, st] a message the peer sent on a connection
  \* ---- goroutines
  readLoop,        \* readLoop[k]: [pc, reader] the read loop started for k
  rec,             \* rec[k]: the reconnect goroutine started when k dropped
  closer,          \* user goroutine inside Close
  sender,          \* user goroutine inside Send: [pc, conn]
  panicked,        \* a goroutine hit a nil dereference: the process is gone
  \* ---- callbacks and history
  cbConnect,       \* cbConnect[k]: "none" | "pending" | "done"
  cbDisc,          \* cbDisc[k]: [pending, done] on-disconnect goroutines
  delivered,       \* message ids in the order on-message was invoked
  connErrs,        \* on-error(err) dispatched by handleConnectionError
  instBy,          \* who installed the latest connection: "user" | "reconnect"
  afterDisc,       \* a Disconnect or Close has returned and no Connect has
                   \* succeeded since
  discFound        \* what the last Disconnect found, until the next
                   \* successful Connect: [connected, reconnecting]

cvars == <<autoReconnect, maxReconnects, conn, connected, reconnectCount,
           ctxDone, nDialed, link, serverUp, msg, readLoop, rec, closer,
           sender, panicked, cbConnect, cbDisc, delivered, connErrs, instBy,
           afterDisc, discFound, dialCap>>

\* ------------------------------------------------------------ client: Init
NoRec == [pc |-> "none", cur |-> 0, reported |-> <<>>, final |-> 0,
          quiet |-> FALSE]

NoDisc == [connected |-> FALSE, reconnecting |-> FALSE]

\* NewTCPClient, client.go:43-66: nothing dialed, not connected, counter 0,
\* context live.  MaxReconnects only matters with AutoReconnect.
ClientInit ==
  /\ autoReconnect \in BOOLEAN
  /\ maxReconnects \in {0, MaxRec}
  /\ autoReconnect \/ maxReconnects = 0
  /\ conn = 0
  /\ connected = FALSE
  /\ reconnectCount = 0
  /\ ctxDone = FALSE
  /\ nDialed = 0
  /\ dialCap \in {MaxConns, MaxDials}
  /\ link = [k \in ConnIds |-> "none"]
  /\ serverUp = TRUE
  /\ msg = [m \in MsgIds |-> [conn |-> 0, st |-> "unsent"]]
  /\ readLoop = [k \in ConnIds |-> [pc |-> "none", reader |-> 0]]
  /\ rec = [k \in ConnIds |-> NoRec]
  /\ closer = "idle"
  /\ sender = [pc |-> "idle", conn |-> 0]
  /\ panicked = FALSE
  /\ cbConnect = [k \in ConnIds |-> "none"]
  /\ cbDisc = [k \in ConnIds |-> [pending |-> 0, done |-> 0]]
  /\ delivered = <<>>
  /\ connErrs = 0
  /\ instBy = "none"
  /\ afterDisc = FALSE
  /\ discFound = NoDisc

\* ------------------------------------------------- client: shared helpers
\* A user call or the server coming back ends the "undisturbed outage" that
\* rec[k].quiet records for a reconnect goroutine; what the goroutine
\* reported (history, not program state) is only kept while quiet holds.
Disturb(r) ==
  [k \in ConnIds |-> [r[k] EXCEPT !.quiet = FALSE, !.reported = <<>>, !.final = 0]]

\* A reconnect goroutine (client.go:260-297) is running.
Reconnecting == \E k \in ConnIds : rec[k].pc \notin {"none", "done"}

\* Faulty variant: c.conn is set to nil without conn.Close().
CloseConn_Leak(l, k) == l

\* net.Conn.Close() on the connection held in c.conn (nil: nothing to close).
CloseConn(l, k) == IF k = 0 THEN l ELSE [l EXCEPT ![k] = "closed"]

\* A read or a write on connection k returns an error.
Dead(k) == link[k] \in {"broken", "closed"}

\* `go c.onDisconnect(..)` for the connection being torn down.
SpawnDisc(cb, k) ==
  IF k = 0 THEN cb ELSE [cb EXCEPT ![k].pending = cb[k].pending + 1]

\* `go c.reconnect()`, client.go:253-255: started when connection k dropped.
SpawnRec(r, k) ==
  IF autoReconnect /\ k # 0
  THEN [r EXCEPT ![k] = [pc |-> "top", cur |-> 0, reported |-> <<>>,
                         final |-> 0,
                         quiet |-> (~serverUp /\ ~ctxDone /\ closer = "idle")]]
  ELSE r

\* Faulty variant: a successful Connect that leaves the counter alone.
ConnectSucceeds_NoReset(by) ==
  /\ ~connected
  /\ serverUp
  /\ nDialed < dialCap
  /\ nDialed' = nDialed + 1
  /\ conn' = nDialed + 1
  /\ connected' = TRUE
  /\ reconnectCount' = reconnectCount
  /\ link' = [link EXCEPT ![nDialed + 1] = "open"]
  /\ cbConnect' = [cbConnect EXCEPT ![nDialed + 1] = "pending"]
  /\ readLoop' = [readLoop EXCEPT ![nDialed + 1] = [pc |-> "start", reader |-> 0]]
  /\ instBy' = by
  /\ afterDisc' = FALSE
  /\ discFound' = NoDisc

\* Connect, client.go:85-111, the successful path: dial, install the
\* connection, reset the counter, `go c.onConnect()`, `go c.readLoop()`.
ConnectSucceeds(by) ==
  /\ ~connected
  /\ serverUp
  /\ nDialed < dialCap
  /\ nDialed' = nDialed + 1
  /\ conn' = nDialed + 1
  /\ connected' = TRUE
  /\ reconnectCount' = 0
  /\ link' = [link EXCEPT ![nDialed + 1] = "open"]
  /\ cbConnect' = [cbConnect EXCEPT ![nDialed + 1] = "pending"]
  /\ readLoop' = [readLoop EXCEPT ![nDialed + 1] = [pc |-> "start", reader |-> 0]]
  /\ instBy' = by
  /\ afterDisc' = FALSE
  /\ discFound' = NoDisc

\* Faulty variant: a Connect that marks the client connected before it
\* dials and does not undo it when the dial fails.
ConnectFails_MarksConnected ==
  /\ connected \/ ~serverUp
  /\ connected' = TRUE
  /\ UNCHANGED <<nDialed, conn, reconnectCount, link, cbConnect, readLoop,
                 instBy, afterDisc, discFound>>

\* Connect, client.go:89-96, the two error returns: "already connected" and
\* a failed dial.  Nothing is changed.
ConnectFails ==
  /\ connected \/ ~serverUp
  /\ UNCHANGED <<nDialed, conn, connected, reconnectCount, link, cbConnect,
                 readLoop, instBy, afterDisc, discFound>>

\* Faulty variant: Disconnect without the `if !c.connected { return }` guard.
Disconnect_NoGuard ==
  /\ connected' = FALSE
  /\ link' = CloseConn(link, conn)
  /\ conn' = 0
  /\ cbDisc' = IF nDialed = 0 THEN cbDisc
               ELSE [cbDisc EXCEPT ![nDialed].pending = cbDisc[nDialed].pending + 1]

\* Disconnect, client.go:114-132, one critical section.
Disconnect ==
  IF ~connected
  THEN UNCHANGED <<conn, connected, link, cbDisc>>
  ELSE /\ connected' = FALSE
       /\ link' = CloseConn(link, conn)
       /\ conn' = 0
       /\ cbDisc' = SpawnDisc(cbDisc, conn)

\* handleConnectionError, client.go:231-257: the critical section and the
\* three go statements behind `if wasConnected`.
HandleConnectionError ==
  /\ connected' = FALSE
  /\ link' = CloseConn(link, conn)
  /\ conn' = 0
  /\ IF connected
     THEN /\ cbDisc' = SpawnDisc(cbDisc, conn)
          /\ connErrs' = connErrs + 1
          /\ rec' = SpawnRec(rec, conn)
     ELSE UNCHANGED <<cbDisc, connErrs, rec>>

\* ------------------------------------------------------ client: user calls
\* The user's calls are made by one goroutine, one call after the other.
UserIdle == closer = "idle" /\ sender.pc = "idle"

UserConnect ==
  /\ ~panicked
  /\ UserIdle
  /\ rec' = Disturb(rec)
  /\ ConnectSucceeds("user") \/ ConnectFails
  /\ UNCHANGED <<autoReconnect, maxReconnects, ctxDone, serverUp, msg,
                 closer, sender, panicked, cbDisc, delivered, connErrs,
                 dialCap>>

UserDisconnect ==
  /\ ~panicked
  /\ UserIdle
  /\ rec' = Disturb(rec)
  /\ Disconnect
  /\ afterDisc' = TRUE
  /\ discFound' = [connected |-> connected, reconnecting |-> Reconnecting]
  /\ UNCHANGED <<autoReconnect, maxReconnects, reconnectCount, ctxDone,
                 nDialed, serverUp, msg, readLoop, closer, sender, panicked,
                 cbConnect, delivered, connErrs, instBy, dialCap>>

\* Close, client.go:135-138: c.cancel() ...
CloseCancel ==
  /\ ~panicked
  /\ UserIdle
  /\ rec' = Disturb(rec)
  /\ ctxDone' = TRUE
  /\ closer' = "disconnect"
  /\ UNCHANGED <<autoReconnect, maxReconnects, conn, connected,
                 reconnectCount, nDialed, link, serverUp, msg, readLoop,
                 sender, panicked, cbConnect, cbDisc, delivered, connErrs,
                 instBy, afterDisc, discFound, dialCap>>

\* ... then c.Disconnect().
CloseDisconnect ==
  /\ ~panicked
  /\ closer = "disconnect"
  /\ closer' = "idle"
  /\ Disconnect
  /\ afterDisc' = TRUE
  /\ UNCHANGED <<autoReconnect, maxReconnects, reconnectCount, ctxDone,
                 nDialed, serverUp, msg, readLoop, rec, sender, panicked,
                 cbConnect, delivered, connErrs, instBy, discFound, dialCap>>

\* Faulty variant: a Send that hands its "not connected" error to on-error.
SendBegin_ReportsError ==
  /\ ~panicked
  /\ UserIdle
  /\ rec' = Disturb(rec)
  /\ sender' = IF ~connected \/ conn = 0 THEN sender
               ELSE [pc |-> "write", conn |-> conn]
  /\ connErrs' = IF ~connected \/ conn = 0 THEN connErrs + 1 ELSE connErrs
  /\ UNCHANGED <<autoReconnect, maxReconnects, conn, connected,
                 reconnectCount, ctxDone, nDialed, link, serverUp, msg,
                 readLoop, closer, panicked, cbConnect, cbDisc, delivered,
                 instBy, afterDisc, discFound, dialCap>>

\* Send, client.go:141-149: read conn and connected under the read lock;
\* "not connected" is returned at once.
SendBegin ==
  /\ ~panicked
  /\ UserIdle
  /\ rec' = Disturb(rec)
  /\ sender' = IF ~connected \/ conn = 0 THEN sender
               ELSE [pc |-> "write", conn |-> conn]
  /\ UNCHANGED <<autoReconnect, maxReconnects, conn, connected,
                 reconnectCount, ctxDone, nDialed, link, serverUp, msg,
                 readLoop, closer, panicked, cbConnect, cbDisc, delivered,
                 connErrs, instBy, afterDisc, discFound, dialCap>>

\* Send, client.go:156-162: conn.Write fails on a closed connection and may
\* fail on one whose peer is gone, and then c.handleConnectionError(err)
\* runs; otherwise the bytes are written.
SendWrite ==
  /\ ~panicked
  /\ sender.pc = "write"
  /\ sender' = [pc |-> "idle", conn |-> 0]
  /\ \/ /\ Dead(sender.conn)
        /\ HandleConnectionError
     \/ /\ link[sender.conn] # "closed"
        /\ UNCHANGED <<conn, connected, link, cbDisc, connErrs, rec>>
  /\ UNCHANGED <<autoReconnect, maxReconnects, reconnectCount, ctxDone,
                 nDialed, serverUp, msg, readLoop, closer, panicked,
                 cbConnect, delivered, instBy, afterDisc, discFound, dialCap>>

\* ----------------------------------------------------- client: read loop
\* readLoop, client.go:201: bufio.NewReader(c.conn) reads the field without
\* the lock, so the reader is bound to whatever c.conn holds at that moment.
ReadLoopStart(k) ==
  /\ ~panicked
  /\ readLoop[k].pc = "start"
  /\ readLoop' = [readLoop EXCEPT ![k] = [pc |-> "loop", reader |-> conn]]
  /\ UNCHANGED <<autoReconnect, maxReconnects, conn, connected,
                 reconnectCount, ctxDone, nDialed, link, serverUp, msg, rec,
                 closer, sender, panicked, cbConnect, cbDisc, delivered,
                 connErrs, instBy, afterDisc, discFound, dialCap>>

\* readLoop, client.go:191-199, the deferred function: whatever c.conn holds
\* now is closed and the client is marked disconnected; no callback.
ReadLoopDefer ==
  /\ connected' = FALSE
  /\ link' = CloseConn(link, conn)
  /\ conn' = 0

\* readLoop, client.go:205-212: the select on ctx.Done (return, and the
\* deferred function runs), else c.conn.SetReadDeadline, which is a method
\* call on a nil interface when c.conn is nil.
ReadLoopSelect(k) ==
  /\ ~panicked
  /\ readLoop[k].pc = "loop"
  /\ IF ctxDone
     THEN /\ readLoop' = [readLoop EXCEPT ![k] = [pc |-> "done", reader |-> 0]]
          /\ ReadLoopDefer
          /\ panicked' = panicked
     ELSE IF conn = 0
          THEN /\ panicked' = TRUE
               /\ UNCHANGED <<readLoop, conn, connected, link>>
          ELSE /\ readLoop' = [readLoop EXCEPT ![k].pc = "read"]
               /\ UNCHANGED <<panicked, conn, connected, link>>
  /\ UNCHANGED <<autoReconnect, maxReconnects, reconnectCount, ctxDone,
                 nDialed, serverUp, msg, rec, closer, sender, cbConnect,
                 cbDisc, delivered, connErrs, instBy, afterDisc, discFound,
                 dialCap>>

\* The oldest message in flight on connection r, 0 when there is none.
NextInFlight(r) ==
  LET S == {m \in MsgIds : msg[m].conn = r /\ msg[m].st = "inflight"}
  IN IF S = {} THEN 0 ELSE CHOOSE m \in S : \A n \in S : m <= n

\* readLoop, client.go:214-225: reader.Read on a nil reader panics; it
\* returns an error (connection closed, peer gone, read deadline passed) and
\* c.handleConnectionError(err) runs; or it returns the next bytes, which
\* are copied and handed to `go c.onMessage(data)`.
ReadLoopRead(k) ==
  /\ ~panicked
  /\ readLoop[k].pc = "read"
  /\ LET r == readLoop[k].reader IN
     IF r = 0
     THEN /\ panicked' = TRUE
          /\ UNCHANGED <<readLoop, msg, conn, connected, link, cbDisc,
                         connErrs, rec>>
     ELSE /\ panicked' = panicked
          /\ \/ /\ Dead(r)
                /\ readLoop' = [readLoop EXCEPT ![k].pc = "defer"]
                /\ HandleConnectionError
                /\ msg' = msg
             \/ /\ link[r] # "closed"
                /\ NextInFlight(r) # 0
                /\ msg' = [msg EXCEPT ![NextInFlight(r)].st = "pending"]
                /\ readLoop' = [readLoop EXCEPT ![k].pc = "loop"]
                /\ UNCHANGED <<conn, connected, link, cbDisc, connErrs, rec>>
  /\ UNCHANGED <<autoReconnect, maxReconnects, reconnectCount, ctxDone,
                 nDialed, serverUp, closer, sender, cbConnect, delivered,
                 instBy, afterDisc, discFound, dialCap>>

\* readLoop, client.go:217 `return`: the deferred function runs after
\* handleConnectionError has returned.
ReadLoopExit(k) ==
  /\ ~panicked
  /\ readLoop[k].pc = "defer"
  /\ readLoop' = [readLoop EXCEPT ![k] = [pc |-> "done", reader |-> 0]]
  /\ ReadLoopDefer
  /\ UNCHANGED <<autoReconnect, maxReconnects, reconnectCount, ctxDone,
                 nDialed, serverUp, msg, rec, closer, sender, panicked,
                 cbConnect, cbDisc, delivered, connErrs, instBy, afterDisc,
                 discFound, dialCap>>

\* ------------------------------------------- client: reconnect goroutine
\* Faulty variant: a reconnect that takes MaxReconnects = 0 as a limit of
\* zero attempts (`currentCount >= maxReconnects` without `maxReconnects > 0`).
ReconnectTop_ZeroIsLimit(k) ==
  /\ ~panicked
  /\ rec[k].pc = "top"
  /\ rec' = IF ctxDone
            THEN [rec EXCEPT ![k].pc = "done", ![k].cur = 0]
            ELSE IF reconnectCount >= maxReconnects
                 THEN [rec EXCEPT ![k].pc = "done", ![k].cur = 0,
                                  ![k].final = IF rec[k].quiet THEN 1 ELSE 0]
                 ELSE [rec EXCEPT ![k].pc = "sleep", ![k].cur = reconnectCount]
  /\ UNCHANGED <<autoReconnect, maxReconnects, conn, connected,
                 reconnectCount, ctxDone, nDialed, link, serverUp, msg,
                 readLoop, closer, sender, panicked, cbConnect, cbDisc,
                 delivered, connErrs, instBy, afterDisc, discFound, dialCap>>

\* reconnect, client.go:262-277: leave when the context is cancelled; read
\* the counter; when it has reached MaxReconnects dispatch the final
\* on-error and leave.
ReconnectTop(k) ==
  /\ ~panicked
  /\ rec[k].pc = "top"
  /\ rec' = IF ctxDone
            THEN [rec EXCEPT ![k].pc = "done", ![k].cur = 0]
            ELSE IF maxReconnects > 0 /\ reconnectCount >= maxReconnects
                 THEN [rec EXCEPT ![k].pc = "done", ![k].cur = 0,
                                  ![k].final = IF rec[k].quiet THEN 1 ELSE 0]
                 ELSE [rec EXCEPT ![k].pc = "sleep", ![k].cur = reconnectCount]
  /\ UNCHANGED <<autoReconnect, maxReconnects, conn, connected,
                 reconnectCount, ctxDone, nDialed, link, serverUp, msg,
                 readLoop, closer, sender, panicked, cbConnect, cbDisc,
                 delivered, connErrs, instBy, afterDisc, discFound, dialCap>>

\* reconnect, client.go:280-285: the delay has passed; c.reconnectCount++.
ReconnectWake(k) ==
  /\ ~panicked
  /\ rec[k].pc = "sleep"
  /\ reconnectCount < MaxAttempts
  /\ reconnectCount' = reconnectCount + 1
  /\ rec' = [rec EXCEPT ![k].pc = "connect"]
  /\ UNCHANGED <<autoReconnect, maxReconnects, conn, connected, ctxDone,
                 nDialed, link, serverUp, msg, readLoop, closer, sender,
                 panicked, cbConnect, cbDisc, delivered, connErrs, instBy,
                 afterDisc, discFound, dialCap>>

\* reconnect, client.go:287-294: c.Connect(); a failure is dispatched to
\* on-error as "reconnect attempt <currentCount+1> failed" and the loop goes
\* on, a success ends the goroutine.
ReconnectConnect(k) ==
  /\ ~panicked
  /\ rec[k].pc = "connect"
  /\ \/ /\ ConnectSucceeds("reconnect")
        /\ rec' = [rec EXCEPT ![k].pc = "done", ![k].cur = 0]
     \/ /\ ConnectFails
        /\ rec' = [rec EXCEPT ![k].pc = "top",
                              ![k].reported = IF rec[k].quiet
                                              THEN Append(rec[k].reported, rec[k].cur + 1)
                                              ELSE <<>>]
  /\ UNCHANGED <<autoReconnect, maxReconnects, ctxDone, serverUp, msg,
                 closer, sender, panicked, cbDisc, delivered, connErrs,
                 dialCap>>

\* ------------------------------------------------- client: environment
\* The server goes away (or the network, or a read deadline passes): every
\* established connection breaks and dials fail.
ServerDown ==
  /\ serverUp
  /\ serverUp' = FALSE
  /\ link' = [k \in ConnIds |-> IF link[k] = "open" THEN "broken" ELSE link[k]]
  /\ UNCHANGED <<autoReconnect, maxReconnects, conn, connected,
                 reconnectCount, ctxDone, nDialed, msg, readLoop, rec,
                 closer, sender, panicked, cbConnect, cbDisc, delivered,
                 connErrs, instBy, afterDisc, discFound, dialCap>>

\* The server is reachable again.
ServerBack ==
  /\ ~serverUp
  /\ serverUp' = TRUE
  /\ rec' = Disturb(rec)
  /\ UNCHANGED <<autoReconnect, maxReconnects, conn, connected,
                 reconnectCount, ctxDone, nDialed, link, msg, readLoop,
                 closer, sender, panicked, cbConnect, cbDisc, delivered,
                 connErrs, instBy, afterDisc, discFound, dialCap>>

\* The peer writes its next message on an established connection.
PeerSend(k) ==
  /\ link[k] = "open"
  /\ \E m \in MsgIds :
       /\ msg[m].st = "unsent"
       /\ \A n \in MsgIds : n < m => msg[n].st # "unsent"
       /\ msg' = [msg EXCEPT ![m] = [conn |-> k, st |-> "inflight"]]
  /\ UNCHANGED <<autoReconnect, maxReconnects, conn, connected,
                 reconnectCount, ctxDone, nDialed, link, serverUp, readLoop,
                 rec, closer, sender, panicked, cbConnect, cbDisc, delivered,
                 connErrs, instBy, afterDisc, discFound, dialCap>>

\* ---------------------------------------------- client: callback goroutines
\* The goroutine of `go c.onConnect()` (client.go:104) runs.
RunOnConnect(k) ==
  /\ ~panicked
  /\ cbConnect[k] = "pending"
  /\ cbConnect' = [cbConnect EXCEPT ![k] = "done"]
  /\ UNCHANGED <<autoReconnect, maxReconnects, conn, connected,
                 reconnectCount, ctxDone, nDialed, link, serverUp, msg,
                 readLoop, rec, closer, sender, panicked, cbDisc, delivered,
                 connErrs, instBy, afterDisc, discFound, dialCap>>

\* The goroutine of `go c.onDisconnect(..)` (client.go:130, 244) runs.
RunOnDisconnect(k) ==
  /\ ~panicked
  /\ cbDisc[k].pending > 0
  /\ cbDisc' = [cbDisc EXCEPT ![k] = [pending |-> cbDisc[k].pending - 1,
                                      done |-> cbDisc[k].done + 1]]
  /\ UNCHANGED <<autoReconnect, maxReconnects, conn, connected,
                 reconnectCount, ctxDone, nDialed, link, serverUp, msg,
                 readLoop, rec, closer, sender, panicked, cbConnect,
                 delivered, connErrs, instBy, afterDisc, discFound, dialCap>>

\* The goroutine of `go c.onMessage(data)` (client.go:224) enters the callback.
OnMessageStart(m) ==
  /\ ~panicked
  /\ msg[m].st = "pending"
  /\ msg' = [msg EXCEPT ![m].st = "running"]
  /\ delivered' = Append(delivered, m)
  /\ UNCHANGED <<autoReconnect, maxReconnects, conn, connected,
                 reconnectCount, ctxDone, nDialed, link, serverUp, readLoop,
                 rec, closer, sender, panicked, cbConnect, cbDisc, connErrs,
                 instBy, afterDisc, discFound, dialCap>>

\* ... and the callback returns.
OnMessageReturn(m) ==
  /\ ~panicked
  /\ msg[m].st = "running"
  /\ msg' = [msg EXCEPT ![m].st = "done"]
  /\ UNCHANGED <<autoReconnect, maxReconnects, conn, connected,
                 reconnectCount, ctxDone, nDialed, link, serverUp, readLoop,
                 rec, closer, sender, panicked, cbConnect, cbDisc, delivered,
                 connErrs, instBy, afterDisc, discFound, dialCap>>


\* ======================================================================
\* TCPServer (socket/server.go)
\* ======================================================================
MaxPeers  == 2   \* connections peers open to the server in one run
MaxLimit  == 1   \* the non-zero value of MaxConnections that is explored
MaxBcasts == 1   \* Broadcast calls in one run

PeerIds == 1..MaxPeers

VARIABLES
  side,            \* which object this run is about: "client" | "server" |
                   \* "ws" | "stream"
  \* ---- TCPServer fields
  maxConnections,  \* s.maxConnections (0: no limit)
  running,         \* s.running
  srvCtxDone,      \* s.ctx is cancelled
  listener,        \* s.listener: "none" | "open" | "closed"
  wg,              \* s.wg counter
  clients,         \* s.clients: the IDs registered (each maps to its connection)
  \* ---- transports
  nPeers,          \* connections opened by peers so far
  peer,            \* peer[k]: "none" | "backlog" | "open" | "broken" | "closed"
  closedFlag,      \* ClientConnection.closed of connection k
  \* ---- goroutines
  acceptor,        \* acceptLoop: [pc, c]
  handler,         \* handler[k]: pc of handleClient for connection k
  stopper,         \* user goroutine inside Stop
  bcast,           \* user goroutine inside Broadcast: [pc, snap, todo, data]
                   \* and ok, the connections it has written to
  nBcasts,         \* Broadcast calls made so far
  \* ---- what was written, callbacks, history
  outbox,          \* outbox[k]: payloads written to connection k, in order
  rejected,        \* connections closed over the limit, on-error dispatched
  bcastErrs,       \* connections for which Broadcast dispatched on-error
  srvCbConnect,    \* on-client-connect of k: "none" | "pending" | "done"
  srvCbDisc,       \* on-client-disconnect of k: [pending, done]
  srvMsg,          \* srvMsg[m]: [conn, st] a message a peer sent
  srvDelivered,    \* message ids in the order the server's on-message ran
  stopReturned,    \* a Stop that found the server running has returned and
                   \* no Start has succeeded since
  connCloses       \* connCloses[k]: calls of Conn.Close() made by
                   \* ClientConnection.Close of connection k

svars == <<maxConnections, running, srvCtxDone, listener, wg, clients, nPeers,
           peer, closedFlag, acceptor, handler, stopper, bcast, nBcasts,
           outbox, rejected, bcastErrs, srvCbConnect, srvCbDisc, srvMsg,
           srvDelivered, stopReturned, connCloses>>

NoBcast == [pc |-> "idle", snap |-> {}, todo |-> {}, data |-> 0, ok |-> {}]

\* NewTCPServer, part_002:51-70: stopped, empty registry, context live.
ServerInit ==
  /\ maxConnections \in {0, MaxLimit}
  /\ running = FALSE
  /\ srvCtxDone = FALSE
  /\ listener = "none"
  /\ wg = 0
  /\ clients = {}
  /\ nPeers = 0
  /\ peer = [k \in PeerIds |-> "none"]
  /\ closedFlag = [k \in PeerIds |-> FALSE]
  /\ acceptor = [pc |-> "none", c |-> 0]
  /\ handler = [k \in PeerIds |-> "none"]
  /\ stopper = "idle"
  /\ bcast = NoBcast
  /\ nBcasts = 0
  /\ outbox = [k \in PeerIds |-> <<>>]
  /\ rejected = {}
  /\ bcastErrs = {}
  /\ srvCbConnect = [k \in PeerIds |-> "none"]
  /\ srvCbDisc = [k \in PeerIds |-> [pending |-> 0, done |-> 0]]
  /\ srvMsg = [m \in MsgIds |-> [conn |-> 0, st |-> "unsent"]]
  /\ srvDelivered = <<>>
  /\ stopReturned = FALSE
  /\ connCloses = [k \in PeerIds |-> 0]

\* -------------------------------------------------------- server: queries
GetClientCount == Cardinality(clients)

GetClients == clients

\* GetClient, part_002:181-185: the connection registered under id, else nil.
GetClient(id) == IF id \in clients THEN id ELSE 0

IsRunning == running

\* ClientConnection.IsClosed, part_002:363-367.
IsClosed(k) == closedFlag[k]

\* ------------------------------------------------------- server: helpers
\* ClientConnection.Close, part_002:350-360: the first call sets the flag
\* and closes the net.Conn, later calls do nothing.
ConnClose(p, k) == IF closedFlag[k] THEN p ELSE [p EXCEPT ![k] = "closed"]

\* Faulty variant: Close without the `if !c.closed` guard.
CloseCount_NoGuard(n, k) == [n EXCEPT ![k] = n[k] + 1]

\* ClientConnection.Close, part_002:354-359: c.Conn.Close() is called by the
\* call that finds the flag clear.
CloseCount(n, k) == IF closedFlag[k] THEN n ELSE [n EXCEPT ![k] = n[k] + 1]

\* A read or a write on connection k returns an error.
PeerDead(k) == peer[k] \in {"broken", "closed"}

\* Faulty variant: the limit check lets one connection too many through.
LimitReached_OffByOne == maxConnections > 0 /\ GetClientCount > maxConnections

\* acceptLoop, part_002:231-235: the limit check.
LimitReached == maxConnections > 0 /\ GetClientCount >= maxConnections

\* Faulty variant: the connection is not stored.
Register_Lost(cs, k) == cs

\* acceptLoop, part_002:247-249: s.clients[client.ID] = client.
Register(cs, k) == cs \cup {k}

\* Faulty variant: removing one connection empties the registry.
RemoveClient_All(cs, k) == {}

\* removeClient, part_002:314-318: delete(s.clients, client.ID).
RemoveClient(cs, k) == cs \ {k}

\* The user's calls are made by one goroutine, one call after the other.
SrvUserIdle == stopper = "idle" /\ bcast.pc = "idle"

\* ---------------------------------------------------- server: user calls
\* Faulty variant: Start without the `if s.running` test.
Start_NoGuard ==
  /\ SrvUserIdle
  /\ \/ UNCHANGED <<running, listener, wg, acceptor, stopReturned>>
     \/ /\ running' = TRUE
        /\ listener' = "open"
        /\ wg' = wg + 1
        /\ acceptor' = [pc |-> "accept", c |-> 0]
        /\ stopReturned' = FALSE
  /\ UNCHANGED <<maxConnections, srvCtxDone, clients, nPeers, peer,
                 closedFlag, handler, stopper, bcast, nBcasts, outbox,
                 rejected, bcastErrs, srvCbConnect, srvCbDisc, srvMsg,
                 srvDelivered, connCloses>>

\* Start, part_002:89-113: refuse when running; else listen (the bind may
\* fail: running goes back to false) and start the accept loop.
Start ==
  /\ SrvUserIdle
  /\ IF running
     THEN UNCHANGED <<running, listener, wg, acceptor, stopReturned>>
     ELSE \/ UNCHANGED <<running, listener, wg, acceptor, stopReturned>>
          \/ /\ running' = TRUE
             /\ listener' = "open"
             /\ wg' = wg + 1
             /\ acceptor' = [pc |-> "accept", c |-> 0]
             /\ stopReturned' = FALSE
  /\ UNCHANGED <<maxConnections, srvCtxDone, clients, nPeers, peer,
                 closedFlag, handler, stopper, bcast, nBcasts, outbox,
                 rejected, bcastErrs, srvCbConnect, srvCbDisc, srvMsg,
                 srvDelivered, connCloses>>

\* Stop, part_002:116-131: return nil when not running; else clear the
\* flag, cancel the context and close the listener (connections still in
\* the backlog are reset).
StopBegin ==
  /\ SrvUserIdle
  /\ IF ~running
     THEN UNCHANGED <<running, srvCtxDone, listener, peer, stopper>>
     ELSE /\ running' = FALSE
          /\ srvCtxDone' = TRUE
          /\ listener' = IF listener = "open" THEN "closed" ELSE listener
          /\ peer' = [k \in PeerIds |->
                        IF peer[k] = "backlog" THEN "broken" ELSE peer[k]]
          /\ stopper' = "closeClients"
  /\ UNCHANGED <<maxConnections, wg, clients, nPeers, closedFlag, acceptor,
                 handler, bcast, nBcasts, outbox, rejected, bcastErrs,
                 srvCbConnect, srvCbDisc, srvMsg, srvDelivered, stopReturned,
                 connCloses>>

\* Faulty variant: Stop does not close the registered connections.
StopCloseClients_NoClose ==
  /\ stopper = "closeClients"
  /\ stopper' = "wait"
  /\ UNCHANGED <<peer, closedFlag, connCloses>>
  /\ UNCHANGED <<maxConnections, running, srvCtxDone, listener, wg, clients,
                 nPeers, acceptor, handler, bcast, nBcasts, outbox, rejected,
                 bcastErrs, srvCbConnect, srvCbDisc, srvMsg, srvDelivered,
                 stopReturned>>

\* Stop, part_002:134-138: client.Close() for every registered connection.
StopCloseClients ==
  /\ stopper = "closeClients"
  /\ stopper' = "wait"
  /\ peer' = [k \in PeerIds |->
                IF k \in clients /\ ~closedFlag[k] THEN "closed" ELSE peer[k]]
  /\ closedFlag' = [k \in PeerIds |-> closedFlag[k] \/ k \in clients]
  /\ connCloses' = [k \in PeerIds |->
                      IF k \in clients THEN CloseCount(connCloses, k)[k]
                      ELSE connCloses[k]]
  /\ UNCHANGED <<maxConnections, running, srvCtxDone, listener, wg, clients,
                 nPeers, acceptor, handler, bcast, nBcasts, outbox, rejected,
                 bcastErrs, srvCbConnect, srvCbDisc, srvMsg, srvDelivered,
                 stopReturned>>

\* Stop, part_002:141-143: s.wg.Wait() and return.
StopWait ==
  /\ stopper = "wait"
  /\ wg = 0
  /\ stopper' = "idle"
  /\ stopReturned' = TRUE
  /\ UNCHANGED <<maxConnections, running, srvCtxDone, listener, wg, clients,
                 nPeers, peer, closedFlag, acceptor, handler, bcast, nBcasts,
                 outbox, rejected, bcastErrs, srvCbConnect, srvCbDisc,
                 srvMsg, srvDelivered, connCloses>>

\* ClientConnection.Close, part_002:350-360, called by user code on a
\* connection it got from the registry or from a callback; any goroutine,
\* any time.
UserCloseConn(k) ==
  /\ k \in clients
  /\ peer' = ConnClose(peer, k)
  /\ closedFlag' = [closedFlag EXCEPT ![k] = TRUE]
  /\ connCloses' = CloseCount(connCloses, k)
  /\ UNCHANGED <<maxConnections, running, srvCtxDone, listener, wg, clients,
                 nPeers, acceptor, handler, stopper, bcast, nBcasts, outbox,
                 rejected, bcastErrs, srvCbConnect, srvCbDisc, srvMsg,
                 srvDelivered, stopReturned>>

\* Broadcast, part_002:189-194: copy the registry under the read lock.
BroadcastBegin(d) ==
  /\ SrvUserIdle
  /\ nBcasts < MaxBcasts
  /\ nBcasts' = nBcasts + 1
  /\ bcast' = IF clients = {} THEN NoBcast
              ELSE [pc |-> "send", snap |-> clients, todo |-> clients,
                    data |-> d, ok |-> {}]
  /\ bcastErrs' = {}
  /\ UNCHANGED <<maxConnections, running, srvCtxDone, listener, wg, clients,
                 nPeers, peer, closedFlag, acceptor, handler, stopper,
                 outbox, rejected, srvCbConnect, srvCbDisc, srvMsg,
                 srvDelivered, stopReturned, connCloses>>

\* What is left of the loop after the iteration for connection k.
BroadcastRest(k) ==
  IF bcast.todo = {k} THEN [bcast EXCEPT !.pc = "idle", !.todo = {}]
  ELSE [bcast EXCEPT !.todo = bcast.todo \ {k}]

\* Faulty variant: the loop stops at the first failed send.
BroadcastSend_AbortOnError(k) ==
  /\ bcast.pc = "send"
  /\ k \in bcast.todo
  /\ \/ /\ closedFlag[k] \/ PeerDead(k)
        /\ bcast' = [bcast EXCEPT !.pc = "idle", !.todo = {}]
        /\ peer' = ConnClose(peer, k)
        /\ closedFlag' = [closedFlag EXCEPT ![k] = TRUE]
        /\ connCloses' = CloseCount(connCloses, k)
        /\ bcastErrs' = bcastErrs \cup {k}
        /\ outbox' = outbox
     \/ /\ ~closedFlag[k]
        /\ peer[k] # "closed"
        /\ bcast' = [BroadcastRest(k) EXCEPT !.ok = bcast.ok \cup {k}]
        /\ outbox' = [outbox EXCEPT ![k] = Append(outbox[k], bcast.data)]
        /\ UNCHANGED <<peer, closedFlag, connCloses, bcastErrs>>
  /\ UNCHANGED <<maxConnections, running, srvCtxDone, listener, wg, clients,
                 nPeers, acceptor, handler, stopper, nBcasts, rejected,
                 srvCbConnect, srvCbDisc, srvMsg, srvDelivered, stopReturned>>

\* Faulty variant: a failed send removes the connection from the registry.
BroadcastSend_RemovesOnError(k) ==
  /\ bcast.pc = "send"
  /\ k \in bcast.todo
  /\ \/ /\ closedFlag[k] \/ PeerDead(k)
        /\ bcast' = BroadcastRest(k)
        /\ peer' = ConnClose(peer, k)
        /\ closedFlag' = [closedFlag EXCEPT ![k] = TRUE]
        /\ connCloses' = CloseCount(connCloses, k)
        /\ bcastErrs' = bcastErrs \cup {k}
        /\ outbox' = outbox
        /\ clients' = RemoveClient(clients, k)
     \/ /\ ~closedFlag[k]
        /\ peer[k] # "closed"
        /\ bcast' = [BroadcastRest(k) EXCEPT !.ok = bcast.ok \cup {k}]
        /\ outbox' = [outbox EXCEPT ![k] = Append(outbox[k], bcast.data)]
        /\ UNCHANGED <<peer, closedFlag, connCloses, bcastErrs, clients>>
  /\ UNCHANGED <<maxConnections, running, srvCtxDone, listener, wg, nPeers,
                 acceptor, handler, stopper, nBcasts, rejected, srvCbConnect,
                 srvCbDisc, srvMsg, srvDelivered, stopReturned>>

\* Broadcast, part_002:196-200, one iteration: client.Send(data)
\* (part_002:321-342) fails when the connection is flagged closed, and when
\* the write fails, after which the connection is closed; a failure is
\* dispatched to on-error and the loop goes on.
BroadcastSend(k) ==
  /\ bcast.pc = "send"
  /\ k \in bcast.todo
  /\ \/ /\ closedFlag[k] \/ PeerDead(k)
        /\ bcast' = BroadcastRest(k)
        /\ peer' = ConnClose(peer, k)
        /\ closedFlag' = [closedFlag EXCEPT ![k] = TRUE]
        /\ connCloses' = CloseCount(connCloses, k)
        /\ bcastErrs' = bcastErrs \cup {k}
        /\ outbox' = outbox
     \/ /\ ~closedFlag[k]
        /\ peer[k] # "closed"
        /\ bcast' = [BroadcastRest(k) EXCEPT !.ok = bcast.ok \cup {k}]
        /\ outbox' = [outbox EXCEPT ![k] = Append(outbox[k], bcast.data)]
        /\ UNCHANGED <<peer, closedFlag, connCloses, bcastErrs>>
  /\ UNCHANGED <<maxConnections, running, srvCtxDone, listener, wg, clients,
                 nPeers, acceptor, handler, stopper, nBcasts, rejected,
                 srvCbConnect, srvCbDisc, srvMsg, srvDelivered, stopReturned>>

\* ---------------------------------------------------- server: accept loop
\* acceptLoop, part_002:212-241: leave when the context is cancelled (the
\* select, or Accept failing on the closed listener); else take the next
\* connection and either reject it over the limit (close it, dispatch
\* on-error, go on accepting) or go on to register it.
NextBacklog ==
  LET S == {k \in PeerIds : peer[k] = "backlog"}
  IN IF S = {} THEN 0 ELSE CHOOSE k \in S : \A j \in S : k <= j

AcceptLoopAccept ==
  /\ acceptor.pc = "accept"
  /\ IF srvCtxDone \/ listener # "open"
     THEN /\ acceptor' = [pc |-> "done", c |-> 0]
          /\ wg' = wg - 1
          /\ UNCHANGED <<peer, rejected>>
     ELSE /\ NextBacklog # 0
          /\ wg' = wg
          /\ IF LimitReached
             THEN /\ peer' = [peer EXCEPT ![NextBacklog] = "closed"]
                  /\ rejected' = rejected \cup {NextBacklog}
                  /\ acceptor' = acceptor
             ELSE /\ peer' = [peer EXCEPT ![NextBacklog] = "open"]
                  /\ rejected' = rejected
                  /\ acceptor' = [pc |-> "register", c |-> NextBacklog]
  /\ UNCHANGED <<maxConnections, running, srvCtxDone, listener, clients,
                 nPeers, closedFlag, handler, stopper, bcast, nBcasts,
                 outbox, bcastErrs, srvCbConnect, srvCbDisc, srvMsg,
                 srvDelivered, stopReturned, connCloses>>

\* Faulty variant: the reader loop is started without s.wg.Add(1).
AcceptLoopRegister_NoWgAdd ==
  /\ acceptor.pc = "register"
  /\ clients' = Register(clients, acceptor.c)
  /\ handler' = [handler EXCEPT ![acceptor.c] = "select"]
  /\ srvCbConnect' = [srvCbConnect EXCEPT ![acceptor.c] = "pending"]
  /\ acceptor' = [pc |-> "accept", c |-> 0]
  /\ UNCHANGED <<maxConnections, running, srvCtxDone, listener, wg, nPeers,
                 peer, closedFlag, stopper, bcast, nBcasts, outbox, rejected,
                 bcastErrs, srvCbDisc, srvMsg, srvDelivered, stopReturned,
                 connCloses>>

\* acceptLoop, part_002:243-258: register the connection, s.wg.Add(1),
\* `go s.handleClient(client)`, `go s.onClientConnect(client)`.
AcceptLoopRegister ==
  /\ acceptor.pc = "register"
  /\ clients' = Register(clients, acceptor.c)
  /\ wg' = wg + 1
  /\ handler' = [handler EXCEPT ![acceptor.c] = "select"]
  /\ srvCbConnect' = [srvCbConnect EXCEPT ![acceptor.c] = "pending"]
  /\ acceptor' = [pc |-> "accept", c |-> 0]
  /\ UNCHANGED <<maxConnections, running, srvCtxDone, listener, nPeers, peer,
                 closedFlag, stopper, bcast, nBcasts, outbox, rejected,
                 bcastErrs, srvCbDisc, srvMsg, srvDelivered, stopReturned,
                 connCloses>>

\* ----------------------------------------------------- server: reader loop
\* handleClient, part_002:284-292: the select on ctx.Done; on return the
\* deferred function first calls s.wg.Done() (part_002:276-279).
HandleClientSelect(k) ==
  /\ handler[k] = "select"
  /\ IF srvCtxDone
     THEN /\ handler' = [handler EXCEPT ![k] = "remove"]
          /\ wg' = wg - 1
     ELSE /\ handler' = [handler EXCEPT ![k] = "read"]
          /\ wg' = wg
  /\ UNCHANGED <<maxConnections, running, srvCtxDone, listener, clients,
                 nPeers, peer, closedFlag, acceptor, stopper, bcast, nBcasts,
                 outbox, rejected, bcastErrs, srvCbConnect, srvCbDisc,
                 srvMsg, srvDelivered, stopReturned, connCloses>>

\* The oldest message in flight on connection k, 0 when there is none.
SrvNextInFlight(k) ==
  LET S == {m \in MsgIds : srvMsg[m].conn = k /\ srvMsg[m].st = "inflight"}
  IN IF S = {} THEN 0 ELSE CHOOSE m \in S : \A n \in S : m <= n

\* handleClient, part_002:294-308: a read error closes the connection,
\* dispatches on-client-disconnect and returns (s.wg.Done() runs first in
\* the deferred function); data is copied and handed to `go s.onMessage`.
HandleClientRead(k) ==
  /\ handler[k] = "read"
  /\ \/ /\ PeerDead(k)
        /\ peer' = ConnClose(peer, k)
        /\ closedFlag' = [closedFlag EXCEPT ![k] = TRUE]
        /\ connCloses' = CloseCount(connCloses, k)
        /\ srvCbDisc' = [srvCbDisc EXCEPT ![k].pending = srvCbDisc[k].pending + 1]
        /\ wg' = wg - 1
        /\ handler' = [handler EXCEPT ![k] = "remove"]
        /\ srvMsg' = srvMsg
     \/ /\ peer[k] # "closed"
        /\ SrvNextInFlight(k) # 0
        /\ srvMsg' = [srvMsg EXCEPT ![SrvNextInFlight(k)].st = "pending"]
        /\ handler' = [handler EXCEPT ![k] = "select"]
        /\ UNCHANGED <<peer, closedFlag, connCloses, srvCbDisc, wg>>
  /\ UNCHANGED <<maxConnections, running, srvCtxDone, listener, clients,
                 nPeers, acceptor, stopper, bcast, nBcasts, outbox, rejected,
                 bcastErrs, srvCbConnect, srvDelivered, stopReturned>>

\* handleClient, part_002:278: s.removeClient(client), after s.wg.Done().
HandleClientRemove(k) ==
  /\ handler[k] = "remove"
  /\ clients' = RemoveClient(clients, k)
  /\ handler' = [handler EXCEPT ![k] = "done"]
  /\ UNCHANGED <<maxConnections, running, srvCtxDone, listener, wg, nPeers,
                 peer, closedFlag, acceptor, stopper, bcast, nBcasts, outbox,
                 rejected, bcastErrs, srvCbConnect, srvCbDisc, srvMsg,
                 srvDelivered, stopReturned, connCloses>>

\* ---------------------------------------------------- server: environment
\* A peer connects: the connection waits in the listener's backlog.
PeerDial ==
  /\ listener = "open"
  /\ nPeers < MaxPeers
  /\ nPeers' = nPeers + 1
  /\ peer' = [peer EXCEPT ![nPeers + 1] = "backlog"]
  /\ UNCHANGED <<maxConnections, running, srvCtxDone, listener, wg, clients,
                 closedFlag, acceptor, handler, stopper, bcast, nBcasts,
                 outbox, rejected, bcastErrs, srvCbConnect, srvCbDisc,
                 srvMsg, srvDelivered, stopReturned, connCloses>>

\* A peer closes an accepted connection (or it breaks, or the read deadline
\* passes).
PeerDrop(k) ==
  /\ peer[k] = "open"
  /\ peer' = [peer EXCEPT ![k] = "broken"]
  /\ UNCHANGED <<maxConnections, running, srvCtxDone, listener, wg, clients,
                 nPeers, closedFlag, acceptor, handler, stopper, bcast,
                 nBcasts, outbox, rejected, bcastErrs, srvCbConnect,
                 srvCbDisc, srvMsg, srvDelivered, stopReturned, connCloses>>

\* A peer writes its next message on an accepted connection.
SrvPeerSend(k) ==
  /\ peer[k] = "open"
  /\ \E m \in MsgIds :
       /\ srvMsg[m].st = "unsent"
       /\ \A n \in MsgIds : n < m => srvMsg[n].st # "unsent"
       /\ srvMsg' = [srvMsg EXCEPT ![m] = [conn |-> k, st |-> "inflight"]]
  /\ UNCHANGED <<maxConnections, running, srvCtxDone, listener, wg, clients,
                 nPeers, peer, closedFlag, acceptor, handler, stopper, bcast,
                 nBcasts, outbox, rejected, bcastErrs, srvCbConnect,
                 srvCbDisc, srvDelivered, stopReturned, connCloses>>

\* --------------------------------------------- server: callback goroutines
\* The goroutine of `go s.onClientConnect(client)` (part_002:257) runs.
SrvRunOnConnect(k) ==
  /\ srvCbConnect[k] = "pending"
  /\ srvCbConnect' = [srvCbConnect EXCEPT ![k] = "done"]
  /\ UNCHANGED <<maxConnections, running, srvCtxDone, listener, wg, clients,
                 nPeers, peer, closedFlag, acceptor, handler, stopper, bcast,
                 nBcasts, outbox, rejected, bcastErrs, srvCbDisc, srvMsg,
                 srvDelivered, stopReturned, connCloses>>

\* The goroutine of `go s.onClientDisconnect(client, err)` (part_002:298) runs.
SrvRunOnDisconnect(k) ==
  /\ srvCbDisc[k].pending > 0
  /\ srvCbDisc' = [srvCbDisc EXCEPT ![k] = [pending |-> srvCbDisc[k].pending - 1,
                                            done |-> srvCbDisc[k].done + 1]]
  /\ UNCHANGED <<maxConnections, running, srvCtxDone, listener, wg, clients,
                 nPeers, peer, closedFlag, acceptor, handler, stopper, bcast,
                 nBcasts, outbox, rejected, bcastErrs, srvCbConnect, srvMsg,
                 srvDelivered, stopReturned, connCloses>>

\* The goroutine of `go s.onMessage(client, data)` (part_002:307) enters the
\* callback ...
SrvOnMessageStart(m) ==
  /\ srvMsg[m].st = "pending"
  /\ srvMsg' = [srvMsg EXCEPT ![m].st = "running"]
  /\ srvDelivered' = Append(srvDelivered, m)
  /\ UNCHANGED <<maxConnections, running, srvCtxDone, listener, wg, clients,
                 nPeers, peer, closedFlag, acceptor, handler, stopper, bcast,
                 nBcasts, outbox, rejected, bcastErrs, srvCbConnect,
                 srvCbDisc, stopReturned, connCloses>>

\* ... and the callback returns.
SrvOnMessageReturn(m) ==
  /\ srvMsg[m].st = "running"
  /\ srvMsg' = [srvMsg EXCEPT ![m].st = "done"]
  /\ UNCHANGED <<maxConnections, running, srvCtxDone, listener, wg, clients,
                 nPeers, peer, closedFlag, acceptor, handler, stopper, bcast,
                 nBcasts, outbox, rejected, bcastErrs, srvCbConnect,
                 srvCbDisc, srvDelivered, stopReturned, connCloses>>

\* ======================================================================
\* WSServer (websocket/server.go): Start and Stop, the upgrade requests
\* that net/http serves, each in a goroutine of its own, and the reader
\* loop (handleClient) of every connection
\* ======================================================================
MaxReqs    == 3   \* upgrade requests in one run
MaxWsLimit == 2   \* the largest value of MaxConnections that is explored

ReqIds == 1..MaxReqs

VARIABLES
  wsMaxConnections,  \* s.maxConnections of the WSServer (0: no limit)
  wsClients,         \* s.clients of the WSServer: the requests registered
  wsReq,             \* wsReq[r]: pc of the goroutine of request r, first in
                     \* handleWebSocket, then as the reader loop:
                     \* "none" | "check" | "upgrade" | "register" | "spawn"
                     \* | "serving" | "remove" | "gone" | "refused" | "failed"
  wsErrs,            \* the requests for which handleWebSocket has dispatched
                     \* on-error (`go s.onError`)
  wsRunning,         \* s.running
  wsCtxDone,         \* s.cancel() has been called
  wsWg,              \* counter of s.wg
  wsServe,           \* the goroutine of s.server.Serve:
                     \* "none" | "serving" | "closing" | "onError" (it is
                     \* inside the call s.onError(..)) | "done"
  wsStop,            \* pc of a Stop call: "idle" | "close" | "shutdown" | "wait"
  wsClosed,          \* the connections whose closed flag is set
  wsStopReturned     \* Stop has returned on a running server, no Start since

wvars == <<wsMaxConnections, wsClients, wsReq, wsErrs, wsRunning, wsCtxDone,
           wsWg, wsServe, wsStop, wsClosed, wsStopReturned>>

\* NewWSServer, server.go:68-120: empty registry, not running, context live.
WsInit ==
  /\ wsMaxConnections \in 0..MaxWsLimit
  /\ wsClients = {}
  /\ wsReq = [r \in ReqIds |-> "none"]
  /\ wsErrs = {}
  /\ wsRunning = FALSE
  /\ wsCtxDone = FALSE
  /\ wsWg = 0
  /\ wsServe = "none"
  /\ wsStop = "idle"
  /\ wsClosed = {}
  /\ wsStopReturned = FALSE

\* GetClientCount, server.go:230-234.
WsGetClientCount == Cardinality(wsClients)

\* Start and Stop are called by one goroutine, one call after the other.
WsUserIdle == wsStop = "idle"

\* Start, server.go:138-179: refuse when running; else listen (the bind may
\* fail: running goes back to false), s.wg.Add(1) and start Serve.
WsStart ==
  /\ WsUserIdle
  /\ IF wsRunning
     THEN UNCHANGED <<wsRunning, wsWg, wsServe, wsStopReturned>>
     ELSE \/ UNCHANGED <<wsRunning, wsWg, wsServe, wsStopReturned>>
          \/ /\ wsRunning' = TRUE
             /\ wsWg' = wsWg + 1
             /\ wsServe' = "serving"
             /\ wsStopReturned' = FALSE
  /\ UNCHANGED <<wsMaxConnections, wsClients, wsReq, wsErrs, wsCtxDone,
                 wsStop, wsClosed>>

\* Stop, server.go:182-193: return nil when not running; else clear the
\* flag and cancel the context.
WsStopBegin ==
  /\ WsUserIdle
  /\ IF ~wsRunning
     THEN UNCHANGED <<wsRunning, wsCtxDone, wsStop>>
     ELSE /\ wsRunning' = FALSE
          /\ wsCtxDone' = TRUE
          /\ wsStop' = "close"
  /\ UNCHANGED <<wsMaxConnections, wsClients, wsReq, wsErrs, wsWg, wsServe,
                 wsClosed, wsStopReturned>>

\* Stop, server.go:195-200: client.Close() for every registered connection,
\* under the registry lock.
WsStopCloseClients ==
  /\ wsStop = "close"
  /\ wsClosed' = wsClosed \cup wsClients
  /\ wsStop' = "shutdown"
  /\ UNCHANGED <<wsMaxConnections, wsClients, wsReq, wsErrs, wsRunning,
                 wsCtxDone, wsWg, wsServe, wsStopReturned>>

\* Stop, server.go:202-207: s.server.Shutdown closes the listener and waits
\* for the requests net/http still serves; a connection that Upgrade has
\* hijacked is no longer one of them.
WsStopShutdown ==
  /\ wsStop = "shutdown"
  /\ \A r \in ReqIds : wsReq[r] \notin {"check", "upgrade"}
  /\ wsServe' = IF wsServe = "serving" THEN "closing" ELSE wsServe
  /\ wsStop' = "wait"
  /\ UNCHANGED <<wsMaxConnections, wsClients, wsReq, wsErrs, wsRunning,
                 wsCtxDone, wsWg, wsClosed, wsStopReturned>>

\* Stop, server.go:209-211: s.wg.Wait() and return.
WsStopWait ==
  /\ wsStop = "wait"
  /\ wsWg = 0
  /\ wsStop' = "idle"
  /\ wsStopReturned' = TRUE
  /\ UNCHANGED <<wsMaxConnections, wsClients, wsReq, wsErrs, wsRunning,
                 wsCtxDone, wsWg, wsServe, wsClosed>>

\* Start, server.go:169-176: Serve returns after Shutdown; s.wg.Done().
WsServeExit ==
  /\ wsServe = "closing"
  /\ wsServe' = "done"
  /\ wsWg' = wsWg - 1
  /\ UNCHANGED <<wsMaxConnections, wsClients, wsReq, wsErrs, wsRunning,
                 wsCtxDone, wsStop, wsClosed, wsStopReturned>>

\* Start, server.go:171-175: Serve returns an error that is not
\* ErrServerClosed (Accept failed on the listener); the goroutine calls
\* s.onError(..) itself.
WsServeFail ==
  /\ wsServe = "serving"
  /\ wsServe' = "onError"
  /\ UNCHANGED <<wsMaxConnections, wsClients, wsReq, wsErrs, wsRunning,
                 wsCtxDone, wsWg, wsStop, wsClosed, wsStopReturned>>

\* Start, server.go:170-176: the on-error callback returns, and then the
\* deferred s.wg.Done() runs.
WsServeOnErrorReturn ==
  /\ wsServe = "onError"
  /\ wsServe' = "done"
  /\ wsWg' = wsWg - 1
  /\ UNCHANGED <<wsMaxConnections, wsClients, wsReq, wsErrs, wsRunning,
                 wsCtxDone, wsStop, wsClosed, wsStopReturned>>

\* net/http starts handleWebSocket for an incoming request.
WsArrive(r) ==
  /\ wsServe = "serving"
  /\ wsReq[r] = "none"
  /\ \A q \in ReqIds : q < r => wsReq[q] # "none"
  /\ wsReq' = [wsReq EXCEPT ![r] = "check"]
  /\ UNCHANGED <<wsMaxConnections, wsClients, wsErrs, wsRunning, wsCtxDone,
                 wsWg, wsServe, wsStop, wsClosed, wsStopReturned>>

\* handleWebSocket, server.go:299-307: read len(s.clients) under the read
\* lock, release it, and answer 503 when the limit is reached.
WsCheckLimit(r) ==
  /\ wsReq[r] = "check"
  /\ wsReq' = [wsReq EXCEPT ![r] =
                 IF wsMaxConnections > 0 /\ WsGetClientCount >= wsMaxConnections
                 THEN "refused" ELSE "upgrade"]
  /\ UNCHANGED <<wsMaxConnections, wsClients, wsErrs, wsRunning, wsCtxDone,
                 wsWg, wsServe, wsStop, wsClosed, wsStopReturned>>

\* handleWebSocket, server.go:309-316: s.upgrader.Upgrade; an error is
\* dispatched to on-error and the handler returns.
WsUpgrade(r) ==
  /\ wsReq[r] = "upgrade"
  /\ \/ /\ wsReq' = [wsReq EXCEPT ![r] = "register"]
        /\ wsErrs' = wsErrs
     \/ /\ wsReq' = [wsReq EXCEPT ![r] = "failed"]
        /\ wsErrs' = wsErrs \cup {r}
  /\ UNCHANGED <<wsMaxConnections, wsClients, wsRunning, wsCtxDone, wsWg,
                 wsServe, wsStop, wsClosed, wsStopReturned>>

\* handleWebSocket, server.go:318-324: s.clients[client.ID] = client under
\* the write lock.
WsRegister(r) ==
  /\ wsReq[r] = "register"
  /\ wsClients' = wsClients \cup {r}
  /\ wsReq' = [wsReq EXCEPT ![r] = "spawn"]
  /\ UNCHANGED <<wsMaxConnections, wsErrs, wsRunning, wsCtxDone, wsWg,
                 wsServe, wsStop, wsClosed, wsStopReturned>>

\* handleWebSocket, server.go:326-333: s.wg.Add(1), `go s.handleClient`,
\* `go s.onClientConnect`.
WsSpawn(r) ==
  /\ wsReq[r] = "spawn"
  /\ wsWg' = wsWg + 1
  /\ wsReq' = [wsReq EXCEPT ![r] = "serving"]
  /\ UNCHANGED <<wsMaxConnections, wsClients, wsErrs, wsRunning, wsCtxDone,
                 wsServe, wsStop, wsClosed, wsStopReturned>>

\* handleClient, server.go:354-393: the reader loop returns, on a cancelled
\* context or on a read error (the connection was closed, or the peer has
\* gone, which it may do at any time); the deferred s.wg.Done() runs.
WsHandlerExit(r) ==
  /\ wsReq[r] = "serving"
  /\ wsWg' = wsWg - 1
  /\ wsReq' = [wsReq EXCEPT ![r] = "remove"]
  /\ UNCHANGED <<wsMaxConnections, wsClients, wsErrs, wsRunning, wsCtxDone,
                 wsServe, wsStop, wsClosed, wsStopReturned>>

\* handleClient, server.go:357-358, removeClient, server.go:424-428, and
\* Close, server.go:481-495: the connection leaves the registry and is closed.
WsRemove(r) ==
  /\ wsReq[r] = "remove"
  /\ wsClients' = wsClients \ {r}
  /\ wsClosed' = wsClosed \cup {r}
  /\ wsReq' = [wsReq EXCEPT ![r] = "gone"]
  /\ UNCHANGED <<wsMaxConnections, wsErrs, wsRunning, wsCtxDone, wsWg,
                 wsServe, wsStop, wsStopReturned>>

\* ======================================================================
\* The byte stream between a writer and TCPClient.readLoop
\* ======================================================================
MaxPayloads == 2   \* payloads the peer writes in one run
BufSize     == 2   \* len(buffer) in readLoop (4096 in the code), scaled down
MaxByte     == 1   \* byte values are 0..MaxByte

Bytes == 0..MaxByte

\* The payloads of 1 up to BufSize bytes.
Payloads == UNION {[1..n -> Bytes] : n \in 1..BufSize}

VARIABLES
  sent,   \* the payloads the peer wrote, one conn.Write each, in order
  wire,   \* bytes written that have not reached the reader's socket yet
  rbuf,   \* bytes that have arrived and wait to be read
  got,    \* the data handed to on-message, one entry per Read, in order
  buffer, \* the contents of `buffer`, the slice readLoop reads into
  held    \* the slices passed to the on-message calls, in order:
          \* [own: the slice has a backing array of its own, bytes: what
          \* that array holds, n: its length]; a slice that is not its own
          \* is buffer[:n]

tvars == <<sent, wire, rbuf, got, buffer, held>>

StreamInit ==
  /\ sent = <<>>
  /\ wire = <<>>
  /\ rbuf = <<>>
  /\ got = <<>>
  /\ buffer = [i \in 1..BufSize |-> 0]
  /\ held = <<>>

\* Faulty variant: buffer[:n] itself is handed to the callback.
Copy_Alias(b, n) == [own |-> FALSE, bytes |-> <<>>, n |-> n]

\* readLoop, client.go:221-223: data := make([]byte, n); copy(data, buffer[:n]).
Copy(b, n) == [own |-> TRUE, bytes |-> SubSeq(b, 1, n), n |-> n]

\* What the callback that was given held[i] finds in its slice now.
Seen(i) ==
  IF held[i].own THEN held[i].bytes ELSE SubSeq(buffer, 1, held[i].n)

Min(a, b) == IF a <= b THEN a ELSE b

\* The peer writes one payload with one conn.Write (ClientConnection.Send,
\* part_002:335, as an echo does; TCPClient.Send, client.go:156).
StreamWrite(p) ==
  /\ Len(sent) < MaxPayloads
  /\ sent' = Append(sent, p)
  /\ wire' = wire \o p
  /\ UNCHANGED <<rbuf, got, buffer, held>>

\* TCP delivers the next n bytes of the stream to the reader's socket; it
\* keeps the order of the bytes and knows nothing of the writes.
StreamArrive(n) ==
  /\ n \in 1..Len(wire)
  /\ rbuf' = rbuf \o SubSeq(wire, 1, n)
  /\ wire' = SubSeq(wire, n + 1, Len(wire))
  /\ UNCHANGED <<sent, got, buffer, held>>

\* readLoop, client.go:214-225: reader.Read(buffer) stores the bytes that
\* have arrived, at most len(buffer) of them, at the start of buffer; they
\* are copied and the copy is handed to one `go c.onMessage(data)`.
StreamRead ==
  /\ rbuf # <<>>
  /\ LET n == Min(Len(rbuf), BufSize)
         b == SubSeq(rbuf, 1, n) \o SubSeq(buffer, n + 1, BufSize)
     IN
       /\ buffer' = b
       /\ got' = Append(got, SubSeq(rbuf, 1, n))
       /\ held' = Append(held, Copy(b, n))
       /\ rbuf' = SubSeq(rbuf, n + 1, Len(rbuf))
  /\ UNCHANGED <<sent, wire>>

\* ======================================================================
\* WSClient (websocket/client.go): Connect, Disconnect, Close, SendMessage,
\* the read loop and the ping loop of every connection, the reconnect
\* goroutines.  MaxReconnects is 0 (no limit); the dispatches of the
\* callbacks are not recorded.
\* ======================================================================
MaxWsConns    == 2   \* connections the WebSocket client establishes in one run
MaxWcAttempts == 1   \* reconnect attempts counted by c.reconnectCount

WcConnIds == 1..MaxWsConns

VARIABLES
  wcAutoReconnect,   \* config.AutoReconnect
  wcConn,            \* c.conn: 0 is nil, k the k-th connection established
  wcConnected,       \* c.connected
  wcReconnectCount,  \* c.reconnectCount
  wcCtxDone,         \* c.cancel() has been called
  wcDialed,          \* connections established so far
  wcLink,            \* wcLink[k]: "none" | "open" | "broken" (the peer has
                     \* gone) | "closed" (conn.Close() by the client)
  wcRead,            \* wcRead[k]: the readLoop started by the k-th Connect:
                     \* [pc: "none" | "select" | "read" | "defer" | "done",
                     \* reader: the connection its ReadMessage is on]
  wcPing,            \* wcPing[k]: the pingLoop started by the k-th Connect:
                     \* [pc: "none" | "wait" | "write" | "writing" | "done",
                     \* conn: the connection it took from c.conn at its tick]
  wcRec,             \* wcRec[k]: pc of the reconnect goroutine started when
                     \* connection k dropped: "none" | "top" | "sleep"
                     \* | "connect" | "done"
  wcSend,            \* a SendMessage call of the user:
                     \* [pc: "idle" | "write" | "writing", conn]
  wcCloser,          \* a Close call of the user: "idle" | "disconnect"
  wcPanicked         \* a goroutine has dereferenced a nil c.conn

wcvars == <<wcAutoReconnect, wcConn, wcConnected, wcReconnectCount, wcCtxDone,
            wcDialed, wcLink, wcRead, wcPing, wcRec, wcSend, wcCloser,
            wcPanicked>>

\* NewWSClient, client.go:53-93.
WcInit ==
  /\ wcAutoReconnect \in BOOLEAN
  /\ wcConn = 0
  /\ wcConnected = FALSE
  /\ wcReconnectCount = 0
  /\ wcCtxDone = FALSE
  /\ wcDialed = 0
  /\ wcLink = [k \in WcConnIds |-> "none"]
  /\ wcRead = [k \in WcConnIds |-> [pc |-> "none", reader |-> 0]]
  /\ wcPing = [k \in WcConnIds |-> [pc |-> "none", conn |-> 0]]
  /\ wcRec = [k \in WcConnIds |-> "none"]
  /\ wcSend = [pc |-> "idle", conn |-> 0]
  /\ wcCloser = "idle"
  /\ wcPanicked = FALSE

\* conn.Close() on the connection held in c.conn (nil: nothing to close).
WcCloseConn(l, k) == IF k = 0 THEN l ELSE [l EXCEPT ![k] = "closed"]

\* A read or a write on connection k returns an error.
WcDead(k) == wcLink[k] \in {"broken", "closed"}

\* The goroutines that are inside conn.WriteMessage on connection k.
WcWriters(k) ==
  (IF wcSend.pc = "writing" /\ wcSend.conn = k THEN {"send"} ELSE {})
  \cup {<<"ping", j>> : j \in {i \in WcConnIds :
                                wcPing[i].pc = "writing" /\ wcPing[i].conn = k}}

\* Connect, client.go:112-160, the successful path: dial, install the
\* connection, reset the counter, `go c.readLoop()`, `go c.pingLoop()`.
WcConnectSucceeds ==
  /\ ~wcConnected
  /\ wcDialed < MaxWsConns
  /\ wcDialed' = wcDialed + 1
  /\ wcConn' = wcDialed + 1
  /\ wcConnected' = TRUE
  /\ wcReconnectCount' = 0
  /\ wcLink' = [wcLink EXCEPT ![wcDialed + 1] = "open"]
  /\ wcRead' = [wcRead EXCEPT ![wcDialed + 1] = [pc |-> "select", reader |-> 0]]
  /\ wcPing' = [wcPing EXCEPT ![wcDialed + 1] = [pc |-> "wait", conn |-> 0]]

\* Connect, client.go:116-138, the error returns: "already connected" and a
\* failed dial.  Nothing is changed.
WcConnectFails ==
  UNCHANGED <<wcDialed, wcConn, wcConnected, wcReconnectCount, wcLink, wcRead,
              wcPing>>

\* Disconnect, client.go:163-183, one critical section; the close frame is
\* written with c.conn.WriteMessage inside it.
WcDisconnect ==
  IF ~wcConnected
  THEN UNCHANGED <<wcConn, wcConnected, wcLink>>
  ELSE /\ wcConnected' = FALSE
       /\ wcLink' = WcCloseConn(wcLink, wcConn)
       /\ wcConn' = 0

\* handleConnectionError, client.go:318-344: the critical section and
\* `go c.reconnect()` behind `if wasConnected`.
WcHandleConnectionError ==
  /\ wcConnected' = FALSE
  /\ wcLink' = WcCloseConn(wcLink, wcConn)
  /\ wcConn' = 0
  /\ wcRec' = IF wcConnected /\ wcAutoReconnect /\ wcConn # 0
              THEN [wcRec EXCEPT ![wcConn] = "top"]
              ELSE wcRec

\* The user's calls are made by one goroutine, one call after the other.
WcUserIdle == wcCloser = "idle" /\ wcSend.pc = "idle"

WcUserConnect ==
  /\ ~wcPanicked
  /\ WcUserIdle
  /\ WcConnectSucceeds \/ WcConnectFails
  /\ UNCHANGED <<wcAutoReconnect, wcCtxDone, wcRec, wcSend, wcCloser,
                 wcPanicked>>

WcUserDisconnect ==
  /\ ~wcPanicked
  /\ WcUserIdle
  /\ WcDisconnect
  /\ UNCHANGED <<wcAutoReconnect, wcReconnectCount, wcCtxDone, wcDialed,
                 wcRead, wcPing, wcRec, wcSend, wcCloser, wcPanicked>>

\* Close, client.go:186-189: c.cancel(), then c.Disconnect().
WcCloseCancel ==
  /\ ~wcPanicked
  /\ WcUserIdle
  /\ wcCtxDone' = TRUE
  /\ wcCloser' = "disconnect"
  /\ UNCHANGED <<wcAutoReconnect, wcConn, wcConnected, wcReconnectCount,
                 wcDialed, wcLink, wcRead, wcPing, wcRec, wcSend, wcPanicked>>

WcCloseDisconnect ==
  /\ ~wcPanicked
  /\ wcCloser = "disconnect"
  /\ wcCloser' = "idle"
  /\ WcDisconnect
  /\ UNCHANGED <<wcAutoReconnect, wcReconnectCount, wcCtxDone, wcDialed,
                 wcRead, wcPing, wcRec, wcSend, wcPanicked>>

\* SendMessage, client.go:217-226: read conn and connected under the read
\* lock; "not connected" is returned at once.
WcSendBegin ==
  /\ ~wcPanicked
  /\ WcUserIdle
  /\ wcSend' = IF ~wcConnected \/ wcConn = 0 THEN wcSend
               ELSE [pc |-> "write", conn |-> wcConn]
  /\ UNCHANGED <<wcAutoReconnect, wcConn, wcConnected, wcReconnectCount,
                 wcCtxDone, wcDialed, wcLink, wcRead, wcPing, wcRec,
                 wcCloser, wcPanicked>>

\* SendMessage, client.go:228-229: conn.WriteMessage is entered, with no
\* lock held.
WcSendWriteStart ==
  /\ ~wcPanicked
  /\ wcSend.pc = "write"
  /\ wcSend' = [wcSend EXCEPT !.pc = "writing"]
  /\ UNCHANGED <<wcAutoReconnect, wcConn, wcConnected, wcReconnectCount,
                 wcCtxDone, wcDialed, wcLink, wcRead, wcPing, wcRec,
                 wcCloser, wcPanicked>>

\* SendMessage, client.go:229-234: conn.WriteMessage returns; it fails on a
\* closed connection and may fail on one whose peer has gone, and then
\* c.handleConnectionError(err) runs.
WcSendWriteEnd ==
  /\ ~wcPanicked
  /\ wcSend.pc = "writing"
  /\ wcSend' = [pc |-> "idle", conn |-> 0]
  /\ \/ /\ WcDead(wcSend.conn)
        /\ WcHandleConnectionError
     \/ /\ wcLink[wcSend.conn] # "closed"
        /\ UNCHANGED <<wcConn, wcConnected, wcLink, wcRec>>
  /\ UNCHANGED <<wcAutoReconnect, wcReconnectCount, wcCtxDone, wcDialed,
                 wcRead, wcPing, wcCloser, wcPanicked>>

\* readLoop, client.go:258-266, the deferred function: close whatever
\* c.conn holds and mark the client disconnected.
WcReadLoopDefer ==
  /\ wcConnected' = FALSE
  /\ wcLink' = WcCloseConn(wcLink, wcConn)
  /\ wcConn' = 0

\* readLoop, client.go:268-273: the select; on a cancelled context the loop
\* returns and the deferred function runs; else c.conn is read, without the
\* lock, and ReadMessage is called on what it holds: nil panics.
WcReadLoopSelect(k) ==
  /\ ~wcPanicked
  /\ wcRead[k].pc = "select"
  /\ IF wcCtxDone
     THEN /\ wcRead' = [wcRead EXCEPT ![k] = [pc |-> "done", reader |-> 0]]
          /\ WcReadLoopDefer
          /\ wcPanicked' = wcPanicked
     ELSE /\ wcPanicked' = (wcConn = 0)
          /\ wcRead' = IF wcConn = 0 THEN wcRead
                       ELSE [wcRead EXCEPT ![k] = [pc |-> "read", reader |-> wcConn]]
          /\ UNCHANGED <<wcConn, wcConnected, wcLink>>
  /\ UNCHANGED <<wcAutoReconnect, wcReconnectCount, wcCtxDone, wcDialed,
                 wcPing, wcRec, wcSend, wcCloser>>

\* readLoop, client.go:273-285: ReadMessage returns an error and
\* c.handleConnectionError(err) runs, or it returns a message (handed to
\* `go c.onMessage`) and the loop goes on.
WcReadLoopRead(k) ==
  /\ ~wcPanicked
  /\ wcRead[k].pc = "read"
  /\ \/ /\ WcDead(wcRead[k].reader)
        /\ wcRead' = [wcRead EXCEPT ![k].pc = "defer"]
        /\ WcHandleConnectionError
     \/ /\ wcLink[wcRead[k].reader] = "open"
        /\ wcRead' = [wcRead EXCEPT ![k] = [pc |-> "select", reader |-> 0]]
        /\ UNCHANGED <<wcConn, wcConnected, wcLink, wcRec>>
  /\ UNCHANGED <<wcAutoReconnect, wcReconnectCount, wcCtxDone, wcDialed,
                 wcPing, wcSend, wcCloser, wcPanicked>>

\* readLoop, client.go:276 `return`: the deferred function runs after
\* handleConnectionError has returned.
WcReadLoopExit(k) ==
  /\ ~wcPanicked
  /\ wcRead[k].pc = "defer"
  /\ wcRead' = [wcRead EXCEPT ![k] = [pc |-> "done", reader |-> 0]]
  /\ WcReadLoopDefer
  /\ UNCHANGED <<wcAutoReconnect, wcReconnectCount, wcCtxDone, wcDialed,
                 wcPing, wcRec, wcSend, wcCloser, wcPanicked>>

\* pingLoop, client.go:294-306: the select; on a cancelled context the loop
\* may return; on a tick it reads conn and connected under the read lock
\* and returns when the client is not connected.
WcPingTick(k) ==
  /\ ~wcPanicked
  /\ wcPing[k].pc = "wait"
  /\ \/ /\ wcCtxDone
        /\ wcPing' = [wcPing EXCEPT ![k] = [pc |-> "done", conn |-> 0]]
     \/ wcPing' = [wcPing EXCEPT ![k] =
                     IF ~wcConnected \/ wcConn = 0
                     THEN [pc |-> "done", conn |-> 0]
                     ELSE [pc |-> "write", conn |-> wcConn]]
  /\ UNCHANGED <<wcAutoReconnect, wcConn, wcConnected, wcReconnectCount,
                 wcCtxDone, wcDialed, wcLink, wcRead, wcRec, wcSend,
                 wcCloser, wcPanicked>>

\* pingLoop, client.go:308-309: conn.WriteMessage(PingMessage) is entered,
\* with no lock held.
WcPingWriteStart(k) ==
  /\ ~wcPanicked
  /\ wcPing[k].pc = "write"
  /\ wcPing' = [wcPing EXCEPT ![k].pc = "writing"]
  /\ UNCHANGED <<wcAutoReconnect, wcConn, wcConnected, wcReconnectCount,
                 wcCtxDone, wcDialed, wcLink, wcRead, wcRec, wcSend,
                 wcCloser, wcPanicked>>

\* pingLoop, client.go:309-313: the write returns; on an error
\* c.handleConnectionError(err) runs and the loop returns, else it waits for
\* the next tick.
WcPingWriteEnd(k) ==
  /\ ~wcPanicked
  /\ wcPing[k].pc = "writing"
  /\ \/ /\ WcDead(wcPing[k].conn)
        /\ wcPing' = [wcPing EXCEPT ![k] = [pc |-> "done", conn |-> 0]]
        /\ WcHandleConnectionError
     \/ /\ wcLink[wcPing[k].conn] # "closed"
        /\ wcPing' = [wcPing EXCEPT ![k] = [pc |-> "wait", conn |-> 0]]
        /\ UNCHANGED <<wcConn, wcConnected, wcLink, wcRec>>
  /\ UNCHANGED <<wcAutoReconnect, wcReconnectCount, wcCtxDone, wcDialed,
                 wcRead, wcSend, wcCloser, wcPanicked>>

\* reconnect, client.go:347-365: leave when the context is cancelled; with
\* MaxReconnects = 0 there is no limit to test; sleep.
WcReconnectTop(k) ==
  /\ ~wcPanicked
  /\ wcRec[k] = "top"
  /\ wcRec' = [wcRec EXCEPT ![k] = IF wcCtxDone THEN "done" ELSE "sleep"]
  /\ UNCHANGED <<wcAutoReconnect, wcConn, wcConnected, wcReconnectCount,
                 wcCtxDone, wcDialed, wcLink, wcRead, wcPing, wcSend,
                 wcCloser, wcPanicked>>

\* reconnect, client.go:367-372: the delay has passed; c.reconnectCount++.
WcReconnectWake(k) ==
  /\ ~wcPanicked
  /\ wcRec[k] = "sleep"
  /\ wcReconnectCount < MaxWcAttempts
  /\ wcReconnectCount' = wcReconnectCount + 1
  /\ wcRec' = [wcRec EXCEPT ![k] = "connect"]
  /\ UNCHANGED <<wcAutoReconnect, wcConn, wcConnected, wcCtxDone, wcDialed,
                 wcLink, wcRead, wcPing, wcSend, wcCloser, wcPanicked>>

\* reconnect, client.go:374-382: c.Connect(); a failure lets the loop go on,
\* a success ends the goroutine.
WcReconnectConnect(k) ==
  /\ ~wcPanicked
  /\ wcRec[k] = "connect"
  /\ \/ /\ WcConnectSucceeds
        /\ wcRec' = [wcRec EXCEPT ![k] = "done"]
     \/ /\ WcConnectFails
        /\ wcRec' = [wcRec EXCEPT ![k] = "top"]
  /\ UNCHANGED <<wcAutoReconnect, wcCtxDone, wcSend, wcCloser, wcPanicked>>

\* The peer closes connection k or becomes unreachable.
WcPeerDrop(k) ==
  /\ wcLink[k] = "open"
  /\ wcLink' = [wcLink EXCEPT ![k] = "broken"]
  /\ UNCHANGED <<wcAutoReconnect, wcConn, wcConnected, wcReconnectCount,
                 wcCtxDone, wcDialed, wcRead, wcPing, wcRec, wcSend,
                 wcCloser, wcPanicked>>

vars == <<side, cvars, svars, wvars, tvars, wcvars>>

\* ========================================================= specifications
\* A client and a server share no state (each owns its connection or its
\* registry), so a run is about one of them.
OnClient(A) == side = "client" /\ A /\ UNCHANGED <<side, svars, wvars, tvars, wcvars>>

OnServer(A) == side = "server" /\ A /\ UNCHANGED <<side, cvars, wvars, tvars, wcvars>>

\* The objects a run is not about stay as constructed.
AuxInit ==
  /\ WsInit
  /\ wsMaxConnections = 0
  /\ StreamInit
  /\ WcInit
  /\ ~wcAutoReconnect

Idle ==
  /\ ClientInit
  /\ ~autoReconnect
  /\ dialCap = MaxConns
  /\ ServerInit
  /\ maxConnections = 0

Init ==
  /\ side \in {"client", "server"}
  /\ ClientInit
  /\ dialCap = MaxConns
  /\ ServerInit
  /\ AuxInit

\* The calls, goroutines and environment of a client and of a server.
Next ==
  \/ OnClient(UserConnect)
  \/ OnClient(UserDisconnect)
  \/ OnClient(CloseCancel)
  \/ OnClient(CloseDisconnect)
  \/ OnClient(SendBegin)
  \/ OnClient(SendWrite)
  \/ \E k \in ConnIds : OnClient(ReadLoopStart(k))
  \/ \E k \in ConnIds : OnClient(ReadLoopSelect(k))
  \/ \E k \in ConnIds : OnClient(ReadLoopRead(k))
  \/ \E k \in ConnIds : OnClient(ReadLoopExit(k))
  \/ \E k \in ConnIds : OnClient(ReconnectTop(k))
  \/ \E k \in ConnIds : OnClient(ReconnectWake(k))
  \/ \E k \in ConnIds : OnClient(ReconnectConnect(k))
  \/ OnClient(ServerDown)
  \/ OnClient(ServerBack)
  \/ OnServer(Start)
  \/ OnServer(StopBegin)
  \/ OnServer(StopCloseClients)
  \/ OnServer(StopWait)
  \/ \E d \in MsgIds : OnServer(BroadcastBegin(d))
  \/ \E k \in PeerIds : OnServer(BroadcastSend(k))
  \/ OnServer(AcceptLoopAccept)
  \/ OnServer(AcceptLoopRegister)
  \/ \E k \in PeerIds : OnServer(HandleClientSelect(k))
  \/ \E k \in PeerIds : OnServer(HandleClientRead(k))
  \/ \E k \in PeerIds : OnServer(HandleClientRemove(k))
  \/ OnServer(PeerDial)
  \/ \E k \in PeerIds : OnServer(PeerDrop(k))
  \/ \E k \in PeerIds : OnServer(UserCloseConn(k))

Spec == Init /\ [][Next]_vars

\* The same objects with their callback goroutines and inbound messages:
\* a client without AutoReconnect, a server that is not stopped.
DispatchInit == ClientInit /\ ~autoReconnect

InitDispatch ==
  /\ side \in {"client", "server"}
  /\ DispatchInit
  /\ dialCap = MaxConns
  /\ ServerInit
  /\ AuxInit

NextDispatch ==
  \/ OnClient(UserConnect)
  \/ OnClient(UserDisconnect)
  \/ \E k \in ConnIds : OnClient(ReadLoopStart(k))
  \/ \E k \in ConnIds : OnClient(ReadLoopSelect(k))
  \/ \E k \in ConnIds : OnClient(ReadLoopRead(k))
  \/ \E k \in ConnIds : OnClient(ReadLoopExit(k))
  \/ OnClient(ServerDown)
  \/ \E k \in ConnIds : OnClient(PeerSend(k))
  \/ \E k \in ConnIds : OnClient(RunOnConnect(k))
  \/ \E k \in ConnIds : OnClient(RunOnDisconnect(k))
  \/ \E m \in MsgIds : OnClient(OnMessageStart(m))
  \/ \E m \in MsgIds : OnClient(OnMessageReturn(m))
  \/ OnServer(Start)
  \/ OnServer(AcceptLoopAccept)
  \/ OnServer(AcceptLoopRegister)
  \/ \E k \in PeerIds : OnServer(HandleClientSelect(k))
  \/ \E k \in PeerIds : OnServer(HandleClientRead(k))
  \/ \E k \in PeerIds : OnServer(HandleClientRemove(k))
  \/ OnServer(PeerDial)
  \/ \E k \in PeerIds : OnServer(PeerDrop(k))
  \/ \E k \in PeerIds : OnServer(SrvPeerSend(k))
  \/ \E k \in PeerIds : OnServer(SrvRunOnConnect(k))
  \/ \E k \in PeerIds : OnServer(SrvRunOnDisconnect(k))
  \/ \E m \in MsgIds : OnServer(SrvOnMessageStart(m))
  \/ \E m \in MsgIds : OnServer(SrvOnMessageReturn(m))

SpecDispatch == InitDispatch /\ [][NextDispatch]_vars

\* One client with AutoReconnect and no limit on the attempts, followed
\* through Connect, Disconnect, drops and reconnections over more
\* connections; Close and Send are left out.
InitStale ==
  /\ side = "client"
  /\ ClientInit
  /\ autoReconnect
  /\ maxReconnects = 0
  /\ dialCap = MaxDials
  /\ ServerInit
  /\ maxConnections = 0
  /\ AuxInit

NextStale ==
  \/ OnClient(UserConnect)
  \/ OnClient(UserDisconnect)
  \/ \E k \in ConnIds : OnClient(ReadLoopStart(k))
  \/ \E k \in ConnIds : OnClient(ReadLoopSelect(k))
  \/ \E k \in ConnIds : OnClient(ReadLoopRead(k))
  \/ \E k \in ConnIds : OnClient(ReadLoopExit(k))
  \/ \E k \in ConnIds : OnClient(ReconnectTop(k))
  \/ \E k \in ConnIds : OnClient(ReconnectWake(k))
  \/ \E k \in ConnIds : OnClient(ReconnectConnect(k))
  \/ OnClient(ServerDown)
  \/ OnClient(ServerBack)

SpecStale == InitStale /\ [][NextStale]_vars

\* Close and Stop with their loops, under the scheduling the Go runtime
\* gives: a goroutine that can take a step does take it, and a call that
\* has begun goes on; the user and the environment owe nothing.
NextLive ==
  \/ OnClient(UserConnect)
  \/ OnClient(CloseCancel)
  \/ OnClient(CloseDisconnect)
  \/ \E k \in ConnIds : OnClient(ReadLoopStart(k))
  \/ \E k \in ConnIds : OnClient(ReadLoopSelect(k))
  \/ \E k \in ConnIds : OnClient(ReadLoopRead(k))
  \/ \E k \in ConnIds : OnClient(ReadLoopExit(k))
  \/ \E k \in ConnIds : OnClient(ReconnectTop(k))
  \/ \E k \in ConnIds : OnClient(ReconnectWake(k))
  \/ \E k \in ConnIds : OnClient(ReconnectConnect(k))
  \/ OnClient(ServerDown)
  \/ OnClient(ServerBack)
  \/ OnServer(Start)
  \/ OnServer(StopBegin)
  \/ OnServer(StopCloseClients)
  \/ OnServer(StopWait)
  \/ OnServer(AcceptLoopAccept)
  \/ OnServer(AcceptLoopRegister)
  \/ \E k \in PeerIds : OnServer(HandleClientSelect(k))
  \/ \E k \in PeerIds : OnServer(HandleClientRead(k))
  \/ \E k \in PeerIds : OnServer(HandleClientRemove(k))
  \/ OnServer(PeerDial)
  \/ \E k \in PeerIds : OnServer(PeerDrop(k))

FairLive ==
  /\ WF_vars(OnClient(CloseDisconnect))
  /\ \A k \in ConnIds : WF_vars(OnClient(ReadLoopStart(k)))
  /\ \A k \in ConnIds : WF_vars(OnClient(ReadLoopSelect(k)))
  /\ \A k \in ConnIds : WF_vars(OnClient(ReadLoopRead(k)))
  /\ \A k \in ConnIds : WF_vars(OnClient(ReadLoopExit(k)))
  /\ \A k \in ConnIds : WF_vars(OnClient(ReconnectTop(k)))
  /\ \A k \in ConnIds : WF_vars(OnClient(ReconnectWake(k)))
  /\ \A k \in ConnIds : WF_vars(OnClient(ReconnectConnect(k)))
  /\ WF_vars(OnServer(StopCloseClients))
  /\ WF_vars(OnServer(StopWait))
  /\ WF_vars(OnServer(AcceptLoopAccept))
  /\ WF_vars(OnServer(AcceptLoopRegister))
  /\ \A k \in PeerIds : WF_vars(OnServer(HandleClientSelect(k)))
  /\ \A k \in PeerIds : WF_vars(OnServer(HandleClientRead(k)))
  /\ \A k \in PeerIds : WF_vars(OnServer(HandleClientRemove(k)))

SpecLive == Init /\ [][NextLive]_vars /\ FairLive

\* One WSServer: Start, Stop, the upgrade requests and the reader loops.
OnWs(A) == side = "ws" /\ A /\ UNCHANGED <<side, cvars, svars, tvars, wcvars>>

InitWs ==
  /\ side = "ws"
  /\ Idle
  /\ WsInit
  /\ StreamInit
  /\ WcInit
  /\ ~wcAutoReconnect

NextWs ==
  \/ OnWs(WsStart)
  \/ OnWs(WsStopBegin)
  \/ OnWs(WsStopCloseClients)
  \/ OnWs(WsStopShutdown)
  \/ OnWs(WsStopWait)
  \/ OnWs(WsServeExit)
  \/ OnWs(WsServeFail)
  \/ OnWs(WsServeOnErrorReturn)
  \/ \E r \in ReqIds : OnWs(WsArrive(r))
  \/ \E r \in ReqIds : OnWs(WsCheckLimit(r))
  \/ \E r \in ReqIds : OnWs(WsUpgrade(r))
  \/ \E r \in ReqIds : OnWs(WsRegister(r))
  \/ \E r \in ReqIds : OnWs(WsSpawn(r))
  \/ \E r \in ReqIds : OnWs(WsHandlerExit(r))
  \/ \E r \in ReqIds : OnWs(WsRemove(r))

SpecWs == InitWs /\ [][NextWs]_vars

\* One WSClient: the user's calls, the loops of its connections, the peer.
OnWsClient(A) ==
  side = "wsclient" /\ A /\ UNCHANGED <<side, cvars, svars, wvars, tvars>>

InitWsClient ==
  /\ side = "wsclient"
  /\ Idle
  /\ WsInit
  /\ wsMaxConnections = 0
  /\ StreamInit
  /\ WcInit

NextWsClient ==
  \/ OnWsClient(WcUserConnect)
  \/ OnWsClient(WcUserDisconnect)
  \/ OnWsClient(WcCloseCancel)
  \/ OnWsClient(WcCloseDisconnect)
  \/ OnWsClient(WcSendBegin)
  \/ OnWsClient(WcSendWriteStart)
  \/ OnWsClient(WcSendWriteEnd)
  \/ \E k \in WcConnIds : OnWsClient(WcReadLoopSelect(k))
  \/ \E k \in WcConnIds : OnWsClient(WcReadLoopRead(k))
  \/ \E k \in WcConnIds : OnWsClient(WcReadLoopExit(k))
  \/ \E k \in WcConnIds : OnWsClient(WcPingTick(k))
  \/ \E k \in WcConnIds : OnWsClient(WcPingWriteStart(k))
  \/ \E k \in WcConnIds : OnWsClient(WcPingWriteEnd(k))
  \/ \E k \in WcConnIds : OnWsClient(WcReconnectTop(k))
  \/ \E k \in WcConnIds : OnWsClient(WcReconnectWake(k))
  \/ \E k \in WcConnIds : OnWsClient(WcReconnectConnect(k))
  \/ \E k \in WcConnIds : OnWsClient(WcPeerDrop(k))

SpecWsClient == InitWsClient /\ [][NextWsClient]_vars

\* One direction of one TCP connection: a writer, the network, readLoop.
OnStream(A) == side = "stream" /\ A /\ UNCHANGED <<side, cvars, svars, wvars, wcvars>>

InitStream ==
  /\ side = "stream"
  /\ Idle
  /\ AuxInit

NextStream ==
  \/ \E p \in Payloads : OnStream(StreamWrite(p))
  \/ \E n \in 1..(MaxPayloads * BufSize) : OnStream(StreamArrive(n))
  \/ OnStream(StreamRead)

SpecStream == InitStream /\ [][NextStream]_vars

\* ================================================================ claims
\* ---------------------------------------------------------------- C1
\* C1: with AutoReconnect and MaxReconnects = M > 0, a reconnect goroutine
\* that was started by a drop while the server was unreachable, and that
\* runs with the server unreachable and no user call, reports its failed
\* attempts to on-error as attempts 1, 2, ...; when it has ended it has made
\* exactly M attempts and dispatched exactly one final "max reconnect
\* attempts reached", the client is not connected and no reconnect
\* goroutine is running.
RecIdle == \A j \in ConnIds : rec[j].pc \in {"none", "done"}

C1_ReconnectBound ==
  \A k \in ConnIds :
    (maxReconnects > 0 /\ rec[k].quiet) =>
      /\ Len(rec[k].reported) <= maxReconnects
      /\ \A i \in 1..Len(rec[k].reported) : rec[k].reported[i] = i
      /\ rec[k].pc = "done" =>
            /\ Len(rec[k].reported) = maxReconnects
            /\ rec[k].final = 1
            /\ ~connected
            /\ RecIdle

\* ---------------------------------------------------------------- C2
Rejecting == rejected' # rejected

\* C2: with MaxConnections = N > 0 the registry never holds more than N
\* connections; a connection rejected over the limit is closed, is not
\* registered, has no reader loop and no on-client-connect (its on-error is
\* what `rejected` records); and the step that rejects a connection finds N
\* connections registered, leaves the registry as it is and leaves the
\* accept loop accepting.
C2_LimitInv ==
  maxConnections > 0 =>
    /\ GetClientCount <= maxConnections
    /\ \A k \in rejected :
         /\ peer[k] = "closed"
         /\ k \notin clients
         /\ handler[k] = "none"
         /\ srvCbConnect[k] = "none"

C2_ConnectionLimit ==
  /\ []C2_LimitInv
  /\ [][Rejecting => /\ GetClientCount = maxConnections
                     /\ clients' = clients
                     /\ acceptor'.pc = "accept"]_vars

\* A connection was rejected while N others are registered and open.
C2_Witness ==
  /\ maxConnections > 0
  /\ rejected # {}
  /\ GetClientCount = maxConnections
  /\ \A k \in clients : peer[k] = "open"

\* ---------------------------------------------------------------- C3
Dispatched(k) == cbDisc[k].pending + cbDisc[k].done

\* C3: for every connection the client established, on-disconnect is
\* dispatched at most once, it has been dispatched once the connection is
\* torn down, and it does not run before the on-connect of that connection.
C3_DisconnectOnce ==
  \A k \in ConnIds :
    /\ Dispatched(k) <= 1
    /\ link[k] = "closed" => Dispatched(k) = 1
    /\ cbDisc[k].done > 0 => cbConnect[k] = "done"

\* ---------------------------------------------------------------- C4
\* C4: after Close has returned, the client is not connected through a
\* connection that a reconnect goroutine installed.
C4_NoInstallAfterClose ==
  (ctxDone /\ closer = "idle" /\ connected) => instBy = "user"

\* ---------------------------------------------------------------- C5
Invoked(st) == st \in {"running", "done"}

\* C5: on-connect is dispatched for every connection that was established
\* (client) or registered (server), and no on-message of a connection has
\* been invoked while the on-connect of that connection has not run.
C5_ConnectBeforeMessage ==
  /\ \A k \in ConnIds : link[k] # "none" => cbConnect[k] # "none"
  /\ \A m \in MsgIds : Invoked(msg[m].st) => cbConnect[msg[m].conn] = "done"
  /\ \A k \in PeerIds : handler[k] # "none" => srvCbConnect[k] # "none"
  /\ \A m \in MsgIds : Invoked(srvMsg[m].st) => srvCbConnect[srvMsg[m].conn] = "done"

\* ---------------------------------------------------------------- C6
\* Messages are numbered in the order the peer wrote them, which is the
\* order they are read from one connection.
InReadOrder(log, ms) ==
  \A i, j \in 1..Len(log) :
    (i < j /\ ms[log[i]].conn = ms[log[j]].conn) => log[i] < log[j]

Serialized(ms) ==
  \A m, n \in MsgIds :
    (m # n /\ ms[m].st = "running" /\ ms[n].st = "running") => ms[m].conn # ms[n].conn

\* C6: the on-message invocations of one connection happen in the order
\* the messages were read, and no two of them are running at once.
C6_MessageOrder ==
  /\ InReadOrder(delivered, msg)
  /\ Serialized(msg)
  /\ InReadOrder(srvDelivered, srvMsg)
  /\ Serialized(srvMsg)

\* ---------------------------------------------------------------- C7
InReaderLoop(k) == handler[k] \in {"select", "read"}

\* C7: from the moment a Stop that found the server running has returned
\* (and until the next successful Start), IsRunning is false, the accept
\* loop has exited and no connection's reader loop is running.
C7_StopWaits ==
  stopReturned =>
    /\ ~IsRunning
    /\ acceptor.pc = "done"
    /\ \A k \in PeerIds : ~InReaderLoop(k)

\* Stop returned although a connection was registered after Stop had closed
\* the registered ones: its reader loop left through ctx.Done.
C7_Witness ==
  /\ stopReturned
  /\ \E k \in PeerIds : handler[k] \in {"remove", "done"} /\ ~closedFlag[k]

\* ---------------------------------------------------------------- C8
ClientObservable == <<conn, connected, link, cbConnect, cbDisc, connErrs, readLoop>>

ServerObservable == <<running, clients, peer, closedFlag, wg, listener,
                      srvCbConnect, srvCbDisc, stopper, stopReturned>>

\* C8: a Disconnect, or the Disconnect inside Close, that follows a
\* Disconnect or Close with no successful Connect in between changes nothing
\* observable on the client and dispatches no callback; a Stop that follows
\* a Stop with no successful Start in between changes nothing on the server
\* and returns at once.
C8_Idempotent ==
  /\ [][(afterDisc /\ (UserDisconnect \/ CloseDisconnect))
          => UNCHANGED ClientObservable]_vars
  /\ [][(stopReturned /\ StopBegin) => UNCHANGED ServerObservable]_vars

\* A Disconnect has torn down a connection and dispatched its on-disconnect;
\* the next Disconnect or Close is the repeated call.
C8_Witness ==
  /\ afterDisc
  /\ ~panicked
  /\ UserIdle
  /\ \E k \in ConnIds : link[k] = "closed" /\ Dispatched(k) = 1

\* ---------------------------------------------------------------- C9
\* C9: Broadcast works on the snapshot it took: every connection of the
\* snapshot has been written to (once, the broadcast payload as given), or
\* has had its failure dispatched to on-error, or is still to come; nothing
\* outside the snapshot is written to; a failure is only reported for a
\* connection that is closed; so after the loop every snapshot connection
\* that is not closed has received the payload.
C9_Broadcast ==
  /\ bcast.ok \cup bcastErrs \cup bcast.todo = bcast.snap
  /\ bcast.ok \cap bcastErrs = {}
  /\ bcast.ok \cap bcast.todo = {}
  /\ bcastErrs \cap bcast.todo = {}
  /\ \A k \in PeerIds : Len(outbox[k]) <= nBcasts
  /\ \A k \in bcast.ok :
       /\ outbox[k] # <<>>
       /\ outbox[k][Len(outbox[k])] = bcast.data
  /\ \A k \in bcastErrs : closedFlag[k]
  /\ bcast.pc = "idle" =>
       \A k \in bcast.snap : ~closedFlag[k] => k \in bcast.ok

\* A broadcast has ended that failed on one connection and reached another.
C9_Witness ==
  /\ bcast.pc = "idle"
  /\ bcastErrs # {}
  /\ bcast.ok # {}

\* ---------------------------------------------------------------- C10
Fired == {k \in PeerIds : srvCbConnect[k] = "done"}

\* C10: when the on-client-connect callbacks of all N connections that
\* peers opened have run and none of the connections has failed or been
\* closed, GetClientCount() is N, GetClients() is those N connections and
\* GetClient(id) returns each of them.
C10_RegistryCount ==
  (/\ Fired = 1..nPeers
   /\ ~srvCtxDone
   /\ \A k \in Fired : peer[k] = "open")
  => /\ GetClientCount = nPeers
     /\ GetClients = Fired
     /\ \A k \in Fired : GetClient(k) = k

\* Two peers are connected and both callbacks have run.
C10_Witness ==
  /\ nPeers = MaxPeers
  /\ Fired = 1..nPeers
  /\ \A k \in Fired : peer[k] = "open"

\* ---------------------------------------------------------------- C11
\* C11: a Connect called while the client is connected, or while a
\* reconnect goroutine is running, changes neither the connection, the
\* connected flag, the reconnect counter nor the loops, and dials nothing.
C11_ConnectOnlyWhenDisconnected ==
  [][(UserConnect /\ (connected \/ Reconnecting))
       => UNCHANGED <<conn, connected, reconnectCount, nDialed, link, readLoop>>]_vars

\* ---------------------------------------------------------------- C12
\* C12: when a reconnect goroutine makes its attempt while the server is
\* reachable and the client is not connected, the attempt succeeds: the
\* client is connected through a new connection, the on-connect of that
\* connection is dispatched, the reconnect counter is 0, a read loop is
\* started for it and the goroutine has ended.
C12_ReconnectSucceeds ==
  [][\A k \in ConnIds :
       (ReconnectConnect(k) /\ serverUp /\ ~connected) =>
         /\ connected'
         /\ conn' = nDialed + 1
         /\ link'[conn'] = "open"
         /\ cbConnect'[conn'] = "pending"
         /\ reconnectCount' = 0
         /\ readLoop'[conn'].pc = "start"
         /\ rec'[k].pc = "done"]_vars

\* The reconnect goroutine of the first connection has installed the second.
C12_Witness ==
  /\ instBy = "reconnect"
  /\ connected
  /\ conn = 2
  /\ reconnectCount = 0
  /\ rec[1].pc = "done"
  /\ readLoop[2].pc = "start"
  /\ cbConnect[2] = "pending"

\* ---------------------------------------------------------------- C13
Others(k) == PeerIds \ {k}

SameConn(j) ==
  /\ peer'[j] = peer[j]
  /\ closedFlag'[j] = closedFlag[j]
  /\ handler'[j] = handler[j]

\* C13: the step in which the reader loop of connection k fails its read
\* closes k and leaves the server running, the registry and every other
\* connection (its transport, its flag, its reader loop) as they are; the
\* step that ends that reader loop removes k, and only k, from the registry.
C13_ReadFailureScoped ==
  /\ [][\A k \in PeerIds :
          (handler[k] = "read" /\ handler'[k] = "remove") =>
            /\ IsClosed(k)'
            /\ peer'[k] = "closed"
            /\ running' = running
            /\ clients' = clients
            /\ \A j \in Others(k) : SameConn(j)]_vars
  /\ [][\A k \in PeerIds :
          (handler[k] = "remove" /\ handler'[k] = "done") =>
            /\ clients' = clients \ {k}
            /\ running' = running
            /\ \A j \in Others(k) : SameConn(j)]_vars

\* One connection has failed and is gone from the registry; the server
\* runs and another connection is registered, open and being read.
C13_Witness ==
  /\ running
  /\ \E k \in PeerIds :
       /\ handler[k] = "done"
       /\ srvCbDisc[k].pending = 1
       /\ k \notin clients
       /\ \E j \in Others(k) :
            /\ j \in clients
            /\ peer[j] = "open"
            /\ handler[j] \in {"select", "read"}

\* ---------------------------------------------------------------- C14
\* C14: no goroutine of the client ever dereferences a nil connection.
C14_NoFault == ~panicked

\* ---------------------------------------------------------------- C15
\* C15: for every server-side connection the transport is closed exactly
\* once, by the Close that sets the flag, and never again; the flag never
\* goes back to false; and IsClosed() is true after a Close.
C15_CloseInv ==
  \A k \in PeerIds :
    /\ connCloses[k] = (IF IsClosed(k) THEN 1 ELSE 0)
    /\ IsClosed(k) => peer[k] = "closed"

C15_CloseOnce ==
  /\ []C15_CloseInv
  /\ [][\A k \in PeerIds :
          /\ IsClosed(k) => IsClosed(k)'
          /\ UserCloseConn(k) => IsClosed(k)']_vars

\* A connection that a Broadcast found closed, or closed after a failed
\* write, has then been closed again by Stop.
C15_Witness ==
  /\ stopper = "wait"
  /\ \E k \in clients : k \in bcastErrs /\ connCloses[k] = 1

\* ---------------------------------------------------------------- C16
SrvDispatched(k) == srvCbDisc[k].pending + srvCbDisc[k].done

\* C16: on-client-disconnect is dispatched at most once for a connection,
\* it has been dispatched once when the reader loop of the connection has
\* removed it from the registry, and it does not run before the
\* on-client-connect of that connection.
C16_SrvDisconnectOnce ==
  \A k \in PeerIds :
    /\ SrvDispatched(k) <= 1
    /\ handler[k] = "done" => SrvDispatched(k) = 1
    /\ srvCbDisc[k].done > 0 => srvCbConnect[k] = "done"

\* ---------------------------------------------------------------- C17
\* C17: with MaxConnections = N > 0 the registry of the WebSocket server
\* never holds more than N connections.
C17_WsLimit ==
  wsMaxConnections > 0 => WsGetClientCount <= wsMaxConnections

\* ---------------------------------------------------------------- C18
\* C18: every invocation of on-message carries exactly one payload as it
\* was written, and the invocations follow the order of the writes: what
\* has been handed to on-message is a prefix of what was written.
C18_RoundTrip ==
  /\ Len(got) <= Len(sent)
  /\ \A i \in 1..Len(got) : got[i] = sent[i]

\* ---------------------------------------------------------------- C19
\* C19: a Disconnect that finds the client connected closes the connection,
\* leaves the client not connected, dispatches one on-disconnect and starts
\* no reconnect goroutine; and after it the client only becomes connected
\* again through a Connect of the user.
C19_DisconnectStays ==
  /\ [][(UserDisconnect /\ connected) =>
          /\ ~connected'
          /\ conn' = 0
          /\ link'[conn] = "closed"
          /\ cbDisc'[conn].pending = cbDisc[conn].pending + 1
          /\ \A k \in ConnIds : rec'[k].pc = rec[k].pc]_vars
  /\ [][(discFound.connected /\ ~connected /\ connected')
          => instBy' = "user"]_vars

\* ---------------------------------------------------------------- C20
\* C20: after a Disconnect that was called while a reconnect goroutine was
\* running, no reconnect goroutine calls Connect any more (until a Connect
\* of the user has succeeded).
C20_DisconnectCancels ==
  [][discFound.reconnecting => \A k \in ConnIds : ~ReconnectConnect(k)]_vars

\* ---------------------------------------------------------------- C21
RecPcs == [k \in ConnIds |-> rec[k].pc]

\* C21: a Connect that fails on a disconnected client (called by the user or
\* by a reconnect goroutine) installs no connection, leaves the client not
\* connected, dispatches no callback, starts no read loop and starts no
\* reconnect goroutine, AutoReconnect or not.
C21_FailedConnect ==
  /\ [][(UserConnect /\ ~connected /\ ~serverUp) =>
          /\ UNCHANGED <<conn, connected, nDialed, link, readLoop, cbConnect,
                         cbDisc, connErrs, reconnectCount>>
          /\ RecPcs' = RecPcs]_vars
  /\ [][\A k \in ConnIds : (ReconnectConnect(k) /\ ~connected /\ ~serverUp) =>
          /\ UNCHANGED <<conn, connected, nDialed, link, readLoop, cbConnect,
                         cbDisc, connErrs, reconnectCount>>
          /\ \A j \in ConnIds \ {k} : rec'[j].pc = rec[j].pc
          /\ rec'[k].pc = "top"]_vars

\* A Connect has failed on a disconnected client with AutoReconnect.
C21_Witness ==
  /\ autoReconnect
  /\ ~connected
  /\ conn = 0
  /\ ~serverUp
  /\ \E k \in ConnIds : Len(rec[k].reported) > 0

\* ---------------------------------------------------------------- C22
\* C22: a Send on a client that is not connected writes to no connection
\* and changes nothing: no connection state, no callback, no on-error, no
\* read loop, no reconnect goroutine.
C22_SendNotConnected ==
  [][(SendBegin /\ ~connected) =>
       /\ UNCHANGED <<conn, connected, nDialed, link, sender, readLoop,
                      cbConnect, cbDisc, connErrs, reconnectCount>>
       /\ RecPcs' = RecPcs]_vars

\* A client that has lost its connection and whose user may call Send.
C22_Witness ==
  /\ ~connected
  /\ conn = 0
  /\ nDialed > 0
  /\ ~panicked
  /\ UserIdle
  /\ ~Reconnecting
  /\ connErrs > 0

\* ---------------------------------------------------------------- C23
\* C23: Start on a running server changes nothing (no second listener, no
\* second accept loop); Start on a stopped server either changes nothing
\* (the bind failed: not running, no accept loop) or leaves the server
\* running with its listener open and one accept loop; and a running server
\* only stops running in Stop.
C23_Start ==
  /\ [][(Start /\ running) =>
          UNCHANGED <<running, listener, wg, acceptor>>]_vars
  /\ [][(Start /\ ~running) =>
          \/ UNCHANGED <<running, listener, wg, acceptor>>
          \/ /\ running'
             /\ listener' = "open"
             /\ acceptor'.pc = "accept"
             /\ wg' = wg + 1]_vars
  /\ [][(running /\ ~running') => StopBegin]_vars

\* A running server with a registered connection, whose user may call Start.
C23_Witness ==
  /\ running
  /\ SrvUserIdle
  /\ listener = "open"
  /\ acceptor.pc = "accept"
  /\ GetClientCount > 0

\* ---------------------------------------------------------------- C24
\* C24: with MaxReconnects = 0 a reconnect goroutine never dispatches the
\* "max reconnect attempts reached" error, and it only ends when the client
\* has been closed or in the step in which its Connect succeeds.
C24_Unlimited ==
  /\ [](maxReconnects = 0 => \A k \in ConnIds : rec[k].final = 0)
  /\ [][maxReconnects = 0 =>
          \A k \in ConnIds :
            (rec[k].pc \notin {"none", "done"} /\ rec'[k].pc = "done") =>
              \/ ctxDone
              \/ (~connected /\ connected' /\ instBy' = "reconnect")]_vars

\* An undisturbed outage in which the goroutine has made MaxAttempts
\* attempts and is about to go on.
C24_Witness ==
  /\ autoReconnect
  /\ maxReconnects = 0
  /\ ~serverUp
  /\ ~ctxDone
  /\ \E k \in ConnIds :
       /\ rec[k].pc = "top"
       /\ rec[k].quiet
       /\ Len(rec[k].reported) = MaxAttempts

\* ---------------------------------------------------------------- C26
\* The connection installed now stays as it is: open or not, installed,
\* the client connected, nothing dispatched, no reconnect goroutine started.
CurrentKept ==
  /\ UNCHANGED <<conn, connected, cbDisc, connErrs>>
  /\ link'[conn] = link[conn]
  /\ RecPcs' = RecPcs

\* C26: a step of a read loop (its read, its select, its deferred function)
\* or of a Send that works on an older connection than the one installed
\* leaves the installed connection open and the client connected, and
\* dispatches no on-disconnect, no on-error and no reconnection.
C26_StaleFailureScoped ==
  /\ [][\A k \in ConnIds :
          ( /\ ReadLoopRead(k) \/ ReadLoopSelect(k) \/ ReadLoopExit(k)
            /\ connected
            /\ readLoop[k].reader \notin {0, conn} ) => CurrentKept]_vars
  /\ [][(SendWrite /\ connected /\ sender.conn # conn) => CurrentKept]_vars

\* ---------------------------------------------------------------- C27
\* What handleConnectionError does to a connected client whose connection
\* is c: close it, mark the client disconnected, dispatch one on-disconnect
\* and one on-error, start a reconnect goroutine when AutoReconnect is set.
FailurePath(c) ==
  /\ ~connected'
  /\ conn' = 0
  /\ link'[c] = "closed"
  /\ cbDisc'[c].pending = cbDisc[c].pending + 1
  /\ connErrs' = connErrs + 1
  /\ rec'[c].pc = IF autoReconnect THEN "top" ELSE rec[c].pc

\* Nothing has been dispatched yet for connection c and no reconnect
\* goroutine has been started for it.
NoEffectsYet(c) == Dispatched(c) = 0 /\ rec[c].pc = "none"

\* C27: a Send whose write fails on the installed connection (the only
\* case in which its write changes anything) and a failed read of the read
\* loop on the installed connection have the same effects (FailurePath); and the
\* effects are dispatched once for a connection: when a Send or a read loop
\* that works on connection c dispatches them, nothing had been dispatched
\* for c before.
C27_FailureOnce ==
  /\ [][(SendWrite /\ connected /\ conn = sender.conn
            /\ ~UNCHANGED <<conn, connected, link, cbDisc, connErrs, rec>>)
          => FailurePath(conn)]_vars
  /\ [][\A k \in ConnIds :
          (ReadLoopRead(k) /\ readLoop'[k].pc = "defer" /\ connected
             /\ conn = readLoop[k].reader) => FailurePath(conn)]_vars
  /\ [][(SendWrite /\ connErrs' # connErrs) => NoEffectsYet(sender.conn)]_vars
  /\ [][\A k \in ConnIds :
          (ReadLoopRead(k) /\ connErrs' # connErrs)
             => NoEffectsYet(readLoop[k].reader)]_vars

\* ---------------------------------------------------------------- C28
\* The connections that were established and have not been closed.
Live == {k \in ConnIds : link[k] \in {"open", "broken"}}

\* C28: in every state in which the client's lock is free, connected is
\* true exactly when a connection is installed, and the only connection
\* that has not been closed is the installed one: a connection is installed
\* only after every earlier one has been closed.
C28_OneConnection ==
  /\ connected <=> conn # 0
  /\ Live \subseteq {conn}
  /\ conn # 0 => conn = nDialed

\* A second connection is installed; the first one was torn down by the
\* failure path and has been closed.
C28_Witness ==
  /\ connected
  /\ conn = 2
  /\ link[2] = "open"
  /\ link[1] = "closed"
  /\ connErrs = 1
  /\ Dispatched(1) = 1

\* ---------------------------------------------------------------- C25
\* C25: after Stop has returned on a running server (and until the next
\* Start) no reader loop of a connection is running: those spawned before
\* have left their loop, and none is spawned afterwards, also not for an
\* upgrade request that was being handled while Stop ran.
C25_WsStopWaits ==
  wsStopReturned => \A r \in ReqIds : wsReq[r] # "serving"

\* ---------------------------------------------------------------- C29
\* C29: at most one goroutine is inside a write on a connection of the
\* WebSocket client at any time (the data write of SendMessage, the ping
\* of a ping loop), and the close frame of Disconnect is written while no
\* goroutine is inside a write on that connection.
C29_SingleWriter ==
  /\ [](\A k \in WcConnIds : Cardinality(WcWriters(k)) <= 1)
  /\ [][(wcConnected /\ (WcUserDisconnect \/ WcCloseDisconnect))
          => WcWriters(wcConn) = {}]_vars

\* ---------------------------------------------------------------- C30
\* C30: the ping loop started by the k-th Connect only ever writes a ping
\* on connection k, never on a connection established later.
C30_PingOwnConnection ==
  \A k \in WcConnIds :
    wcPing[k].pc \in {"write", "writing"} => wcPing[k].conn = k

\* ---------------------------------------------------------------- C31
\* The connections the accept loop has accepted and kept (not rejected over
\* the limit): those it is about to register and those with a reader loop.
Accepted == {k \in PeerIds : handler[k] # "none" \/ acceptor.c = k}

\* C31: when Stop has returned (and until the next Start) every connection
\* the server accepted has been closed by the server.
C31_StopClosesAll ==
  stopReturned => \A k \in Accepted : closedFlag[k] /\ peer[k] = "closed"

\* ---------------------------------------------------------------- C32
\* C32: when Stop has returned (and until the next Start) the registry is
\* empty: GetClientCount() is 0 and GetClients() holds no connection.
C32_StopEmptiesRegistry ==
  stopReturned => (GetClientCount = 0 /\ GetClients = {})

\* ---------------------------------------------------------------- C33
\* C33: a server that is Running has an accept loop that has not returned,
\* also when it was started again after a Stop.
C33_RestartServes ==
  running => acceptor.pc \in {"accept", "register"}

\* ---------------------------------------------------------------- C34
\* The reconnect goroutines that are running.
RecRunning == {k \in ConnIds : rec[k].pc \notin {"none", "done"}}

\* C34: at most one reconnect goroutine is running at any time, and with
\* MaxReconnects = M > 0 the reconnect counter never exceeds M.
C34_OneReconnection ==
  /\ Cardinality(RecRunning) <= 1
  /\ maxReconnects > 0 => reconnectCount <= maxReconnects

\* ---------------------------------------------------------------- C36
\* C36: an entry leaves the registry only in the deferred removeClient of
\* the reader loop of its own connection, which finds the entry there (it
\* is removed once); Broadcast, a Send of Broadcast (also a failing one),
\* ClientConnection.Close and every step of Stop leave the registry as it is.
C36_RemovalByReaderOnly ==
  /\ [][\A k \in PeerIds : (k \in clients /\ k \notin clients') =>
          (HandleClientRemove(k) /\ clients' = clients \ {k})]_vars
  /\ [][\A k \in PeerIds : HandleClientRemove(k) => k \in clients]_vars
  /\ [][(\/ \E d \in MsgIds : BroadcastBegin(d)
         \/ \E k \in PeerIds : BroadcastSend(k)
         \/ \E k \in PeerIds : UserCloseConn(k)
         \/ StopBegin \/ StopCloseClients \/ StopWait) => clients' = clients]_vars

\* A send of Broadcast has failed on a connection: it is closed, its entry
\* is still in the registry and its reader loop has not ended yet.
C36_Witness ==
  /\ \E k \in bcastErrs :
       /\ k \in clients
       /\ closedFlag[k]
       /\ handler[k] \in {"select", "read"}
  /\ running

\* ---------------------------------------------------------------- C39
\* C39: a request that the WebSocket server has refused over the limit is
\* not in the registry, has no reader loop (its goroutine has returned from
\* handleWebSocket), and on-error has been dispatched for it.
C39_WsRejection ==
  \A r \in ReqIds :
    wsReq[r] = "refused" => (r \notin wsClients /\ r \in wsErrs)

\* ---------------------------------------------------------------- C38
\* C38: the slice passed to an on-message call has a backing array of its
\* own (it shares storage neither with the read buffer nor with the slice
\* of another call), and what it holds stays the bytes that were read for
\* that call, however often the read buffer is used again.
C38_PrivateCopy ==
  /\ Len(held) = Len(got)
  /\ \A i \in 1..Len(held) : held[i].own /\ Seen(i) = got[i]

\* The read buffer has been used again and no longer holds what was read
\* for the first call.
C38_Witness ==
  /\ Len(held) >= 2
  /\ SubSeq(buffer, 1, held[1].n) # got[1]

\* ---------------------------------------------------------------- C37
\* Stop is in s.wg.Wait() and the only goroutine it still waits for is one
\* that is inside a user callback: Stop returns only if the callback does.
WsStopNeedsCallback ==
  /\ wsStop = "wait"
  /\ wsWg = 1
  /\ wsServe = "onError"

\* C37: the return of Stop never depends on the return of a user callback.
C37_CallbackDoesNotBlock == ~WsStopNeedsCallback

\* ---------------------------------------------------------------- C35
\* No read loop and no reconnect goroutine of the client is running.
ClientQuiet ==
  \A k \in ConnIds :
    readLoop[k].pc \in {"none", "done"} /\ rec[k].pc \in {"none", "done"}

\* The accept loop and every reader loop of the server have returned.
ServerQuiet ==
  /\ acceptor.pc \in {"none", "done"}
  /\ \A k \in PeerIds : handler[k] \in {"none", "done"}

\* A reconnect goroutine cannot go on because the run has used up the
\* attempts or the connections it explores.
RunExhausted ==
  \E k \in ConnIds :
    \/ rec[k].pc = "sleep" /\ reconnectCount >= MaxAttempts
    \/ rec[k].pc = "connect" /\ ~connected /\ serverUp /\ nDialed >= dialCap

====
